---------------------------- MODULE Spec2Model ----------------------------
(***************************************************************************)
(* Model of the NvFBC screen-capture input device (libavdevice/nvfbc.c)    *)
(* and of its dynamic loader (compat/nvfbc/dynlink_loader.h).              *)
(*                                                                         *)
(* The demuxer is a call-order state machine: nvfbc_read_header performs   *)
(* a handshake with the vendor library, nvfbc_read_packet paces and grabs  *)
(* one frame, nvfbc_read_close unwinds.  Each handler is modelled by its   *)
(* program positions (pc); every vendor or host-framework call is one      *)
(* step whose result is drawn from the results the callee may return.      *)
(* `calls' is the history of the calls made so far.                        *)
(***************************************************************************)
EXTENDS Integers, Sequences, FiniteSets, TLC

VARIABLES
    build,      \* build configuration: CONFIG_CUDA, NVFBC_CHECK_VERSION(1, 8)
    url,        \* s->url
    ctx,        \* NvFBCContext (s->priv_data)
    pc,         \* position of the running handler, or the demuxer's state between calls
    res,        \* value returned by the last handler (res of nvfbc_read_header)
    nv_res,     \* the local nv_res of the running handler: the last vendor status
    clock,      \* av_gettime_relative(), the monotonic clock
    display,    \* Display *display of nvfbc_read_header: "null", "open" or "closed"
    screen,     \* XWidthOfScreen / XHeightOfScreen of the default screen
    streams,    \* s->streams
    pts,        \* the local pts of nvfbc_read_packet
    delay,      \* the local delay of wait_frame: the last argument of av_usleep
    pkt,        \* the AVPacket filled by the last nvfbc_read_packet
    calls,      \* history: the calls made to the loader, the vendor library and libavutil
    npackets,   \* history: number of nvfbc_read_packet calls started
    grabs,      \* history: the grab calls made by the last nvfbc_read_packet
    t_rec,      \* history: clock value stored by nvfbc_read_header in time_frame
    t_ret       \* history: clock value when nvfbc_read_header returned

vars == <<build, url, ctx, pc, res, nv_res, clock, display, screen, streams,
          pts, delay, pkt, calls, npackets, grabs, t_rec, t_ret>>

-----------------------------------------------------------------------------
(* Bounds of the model *)

\* The monotonic clock is followed up to MaxClock, unless a sleep ends later.
MaxClock == 5

\* Number of nvfbc_read_packet calls followed
MaxPackets == 2

\* Time that may pass before nvfbc_read_header is called, in it after it has
\* read the clock, and in nvfbc_read_packet after wait_frame has returned
MaxSetupTime == 1

\* av_gettime() - av_gettime_relative(): the wall clock against the monotonic one
WallOffset == 100

-----------------------------------------------------------------------------
(* Host error space (libavutil/error.h, errno.h) *)

INT_MAX == 2147483647

EIO == 5
EBADF == 9
ENOMEM == 12
EFAULT == 14
EINVAL == 22
ENOSYS == 38
EBADR == 53
EUSERS == 87

AVERROR(e) == -e

\* FFERRTAG(a, b, c, d) == -(int)MKTAG(a, b, c, d), the four characters given
\* by their codes
FFERRTAG(a, b, c, d) == -(a + b * 256 + c * 65536 + d * 16777216)

AVERROR_EXTERNAL == FFERRTAG(69, 88, 84, 32)        \* 'E','X','T',' '
AVERROR_UNKNOWN == FFERRTAG(85, 78, 75, 78)         \* 'U','N','K','N'
AVERROR_PATCHWELCOME == FFERRTAG(80, 65, 87, 69)    \* 'P','A','W','E'
AVERROR_INPUT_CHANGED == -(1 + 103 * 256 + 110 * 65536 + 99 * 16777216)  \* -0x636e6701

-----------------------------------------------------------------------------
(* Vendor status codes and the error table *)

\* The statuses of NVFBCSTATUS that the table names, by name.
NamedStatuses ==
    { "NVFBC_SUCCESS", "NVFBC_ERR_API_VERSION", "NVFBC_ERR_INTERNAL",
      "NVFBC_ERR_INVALID_PARAM", "NVFBC_ERR_INVALID_PTR",
      "NVFBC_ERR_INVALID_HANDLE", "NVFBC_ERR_MAX_CLIENTS",
      "NVFBC_ERR_UNSUPPORTED", "NVFBC_ERR_OUT_OF_MEMORY",
      "NVFBC_ERR_BAD_REQUEST", "NVFBC_ERR_X", "NVFBC_ERR_GLX", "NVFBC_ERR_GL",
      "NVFBC_ERR_CUDA", "NVFBC_ERR_ENCODER", "NVFBC_ERR_CONTEXT",
      "NVFBC_ERR_MUST_RECREATE", "NVFBC_ERR_VULKAN" }

\* Values a vendor call may return that no revision of the enumeration names.
UnlistedStatuses == { "STATUS_UNLISTED_A", "STATUS_UNLISTED_B" }

Statuses == NamedStatuses \cup UnlistedStatuses

Err(nverr, averr, desc) == [nverr |-> nverr, averr |-> averr, desc |-> desc]

nvfbc_errors_base ==
    << Err("NVFBC_SUCCESS",            0,                     "success"),
       Err("NVFBC_ERR_API_VERSION",    AVERROR(EINVAL),       "incompatible version"),
       Err("NVFBC_ERR_INTERNAL",       AVERROR_EXTERNAL,      "internal error"),
       Err("NVFBC_ERR_INVALID_PARAM",  AVERROR(EINVAL),       "invalid param"),
       Err("NVFBC_ERR_INVALID_PTR",    AVERROR(EFAULT),       "invalid pointer"),
       Err("NVFBC_ERR_INVALID_HANDLE", AVERROR(EBADF),        "invalid handle"),
       Err("NVFBC_ERR_MAX_CLIENTS",    AVERROR(EUSERS),       "too many clients"),
       Err("NVFBC_ERR_UNSUPPORTED",    AVERROR(ENOSYS),       "not supported"),
       Err("NVFBC_ERR_OUT_OF_MEMORY",  AVERROR(ENOMEM),       "out of memory"),
       Err("NVFBC_ERR_BAD_REQUEST",    AVERROR(EBADR),        "bad request"),
       Err("NVFBC_ERR_X",              AVERROR_EXTERNAL,      "X error"),
       Err("NVFBC_ERR_GLX",            AVERROR_EXTERNAL,      "GLX error"),
       Err("NVFBC_ERR_GL",             AVERROR_EXTERNAL,      "OpenGL error"),
       Err("NVFBC_ERR_CUDA",           AVERROR_EXTERNAL,      "CUDA error"),
       Err("NVFBC_ERR_ENCODER",        AVERROR_EXTERNAL,      "HW encoder error"),
       Err("NVFBC_ERR_CONTEXT",        AVERROR(EBADF),        "NvFBC context error"),
       Err("NVFBC_ERR_MUST_RECREATE",  AVERROR_INPUT_CHANGED, "modeset event occurred") >>

\* The table of the build: the Vulkan entry exists from API version 1.8 on.
nvfbc_errors(v18) ==
    IF v18
    THEN Append(nvfbc_errors_base,
                Err("NVFBC_ERR_VULKAN", AVERROR_EXTERNAL, "Vulkan error"))
    ELSE nvfbc_errors_base

\* The loop of error_nv2av falling back on the last entry of the table
error_nv2av_from_last(tbl, i, nverr) ==
    LET found == { j \in i..Len(tbl) : tbl[j].nverr = nverr }
        k == IF found = {} THEN Len(tbl)
             ELSE CHOOSE j \in found : \A m \in found : j <= m
    IN  [averr |-> tbl[k].averr, desc |-> tbl[k].desc]

\* The loop of error_nv2av from entry i on: the first entry whose status is
\* nverr, the fallback when the table is exhausted.
RECURSIVE error_nv2av_from(_, _, _)
error_nv2av_from(tbl, i, nverr) ==
    IF i > Len(tbl)
    THEN [averr |-> AVERROR_UNKNOWN, desc |-> "unknown error"]
    ELSE IF nverr = tbl[i].nverr
         THEN [averr |-> tbl[i].averr, desc |-> tbl[i].desc]
         ELSE error_nv2av_from(tbl, i + 1, nverr)

\* error_nv2av giving the code of NVFBC_SUCCESS to a status it does not know
error_nv2av_lenient(tbl, nverr) ==
    IF \E i \in DOMAIN tbl : tbl[i].nverr = nverr
    THEN error_nv2av_from(tbl, 1, nverr)
    ELSE [averr |-> 0, desc |-> "unknown error"]

\* error_nv2av(nverr, &desc) in a build with table tbl
error_nv2av(tbl, nverr) == error_nv2av_from(tbl, 1, nverr)


-----------------------------------------------------------------------------
(* Pixel formats *)

Fmt(pix_fmt, nvfbc_fmt, bpp) == [pix_fmt |-> pix_fmt, nvfbc_fmt |-> nvfbc_fmt, bpp |-> bpp]

nvfbc_formats ==
    << Fmt("AV_PIX_FMT_BGRA",    "NVFBC_BUFFER_FORMAT_BGRA",    32),
       Fmt("AV_PIX_FMT_BGR0",    "NVFBC_BUFFER_FORMAT_BGRA",    32),
       Fmt("AV_PIX_FMT_ARGB",    "NVFBC_BUFFER_FORMAT_ARGB",    32),
       Fmt("AV_PIX_FMT_0RGB",    "NVFBC_BUFFER_FORMAT_ARGB",    32),
       Fmt("AV_PIX_FMT_RGBA",    "NVFBC_BUFFER_FORMAT_RGBA",    32),
       Fmt("AV_PIX_FMT_RGB0",    "NVFBC_BUFFER_FORMAT_RGBA",    32),
       Fmt("AV_PIX_FMT_RGB24",   "NVFBC_BUFFER_FORMAT_RGB",     24),
       Fmt("AV_PIX_FMT_YUV444P", "NVFBC_BUFFER_FORMAT_YUV444P", 24),
       Fmt("AV_PIX_FMT_NV12",    "NVFBC_BUFFER_FORMAT_NV12",    12) >>

\* FF_ARRAY_ELEMS(nvfbc_formats)
NB_FORMATS == Len(nvfbc_formats)

\* nvfbc_formats[idx] with the C (0-based) index
FormatAt(idx) == nvfbc_formats[idx + 1]

\* The for loop stopping one entry before the end of the table
RECURSIVE FormatLookupShort(_, _)
FormatLookupShort(idx, format) ==
    IF idx >= NB_FORMATS - 1 THEN idx
    ELSE IF FormatAt(idx).pix_fmt = format THEN idx
    ELSE FormatLookupShort(idx + 1, format)

\* The for loop of nvfbc_read_header over nvfbc_formats, from index idx on:
\* the value of format_idx when the loop ends.
RECURSIVE FormatLookupFrom(_, _)
FormatLookupFrom(idx, format) ==
    IF idx >= NB_FORMATS THEN idx
    ELSE IF FormatAt(idx).pix_fmt = format THEN idx
    ELSE FormatLookupFrom(idx + 1, format)

FormatLookup(format) == FormatLookupFrom(0, format)

-----------------------------------------------------------------------------
(* Time *)

AV_TIME_BASE == 1000000

\* av_rescale_rnd(a, b, c, AV_ROUND_NEAR_INF) for a, b >= 0 and c > 0
av_rescale(a, b, c) == (a * b + c \div 2) \div c

\* av_rescale_q(a, bq, cq) == av_rescale(a, bq.num * cq.den, cq.num * bq.den)
av_rescale_q(a, bq, cq) == av_rescale(a, bq.num * cq.den, cq.num * bq.den)

av_inv_q(q) == [num |-> q.den, den |-> q.num]

AV_TIME_BASE_Q == [num |-> 1, den |-> AV_TIME_BASE]

\* ctx->frame_duration as nvfbc_read_header computes it from the framerate
FrameDuration(framerate) == av_rescale_q(1, av_inv_q(framerate), AV_TIME_BASE_Q)

-----------------------------------------------------------------------------
(* sscanf on the URL.  A string is the sequence of its characters. *)

Digits == << "0", "1", "2", "3", "4", "5", "6", "7", "8", "9" >>

IsDigit(c) == \E i \in 1..10 : Digits[i] = c

DigitValue(c) == (CHOOSE i \in 1..10 : Digits[i] = c) - 1

IsSpace(c) == c = " "

\* Position of the first character of str at or after p that is not white space.
RECURSIVE SkipSpace(_, _)
SkipSpace(str, p) ==
    IF p <= Len(str) /\ IsSpace(str[p]) THEN SkipSpace(str, p + 1) ELSE p

\* The digits of str from p on, read into the accumulator acc: [val, next].
RECURSIVE ScanDigits(_, _, _)
ScanDigits(str, p, acc) ==
    IF p <= Len(str) /\ IsDigit(str[p])
    THEN ScanDigits(str, p + 1, acc * 10 + DigitValue(str[p]))
    ELSE [val |-> acc, next |-> p]

\* The conversion %d at position p: white space, an optional sign, digits.
\* [ok, val, next, eof]: eof when the input ends before anything is read.
ScanInt(str, p) ==
    LET q == SkipSpace(str, p)
        signed == q <= Len(str) /\ str[q] \in {"+", "-"}
        d == IF signed THEN q + 1 ELSE q
    IN  IF d <= Len(str) /\ IsDigit(str[d])
        THEN LET r == ScanDigits(str, d, 0)
             IN  [ok |-> TRUE,
                  val |-> IF signed /\ str[q] = "-" THEN -r.val ELSE r.val,
                  next |-> r.next, eof |-> FALSE]
        ELSE [ok |-> FALSE, val |-> 0, next |-> q, eof |-> q > Len(str)]

\* sscanf(str, fmt, ...) from directive i of fmt and position p of str, vals
\* being the values converted so far.  A directive is "ws" (white space in
\* the format), "d" (%d), "c" (%c) or a literal character.  The result is
\* [vals, eof]: the converted values in order (a %c gives 0), and whether the
\* input ended before the first conversion.
RECURSIVE ScanFrom(_, _, _, _, _)
ScanFrom(fmt, i, str, p, vals) ==
    IF i > Len(fmt) THEN [vals |-> vals, eof |-> FALSE]
    ELSE IF fmt[i] = "ws" THEN ScanFrom(fmt, i + 1, str, SkipSpace(str, p), vals)
    ELSE IF fmt[i] = "d"
         THEN LET r == ScanInt(str, p)
              IN  IF r.ok THEN ScanFrom(fmt, i + 1, str, r.next, Append(vals, r.val))
                  ELSE [vals |-> vals, eof |-> r.eof /\ vals = << >>]
    ELSE IF fmt[i] = "c"
         THEN IF p <= Len(str)
              THEN ScanFrom(fmt, i + 1, str, p + 1, Append(vals, 0))
              ELSE [vals |-> vals, eof |-> vals = << >>]
    ELSE IF p <= Len(str) /\ str[p] = fmt[i]
         THEN ScanFrom(fmt, i + 1, str, p + 1, vals)
         ELSE [vals |-> vals, eof |-> p > Len(str) /\ vals = << >>]

\* The return value of sscanf: the number of conversions, EOF (-1) when the
\* input ended before the first one.
ScanCount(r) == IF r.eof THEN -1 ELSE Len(r.vals)

\* " %d x %d + %d + %d %c"
FmtSizePos == << "ws", "d", "ws", "x", "ws", "d", "ws", "+", "ws", "d",
                 "ws", "+", "ws", "d", "ws", "c" >>

\* " + %d + %d %c"
FmtPos == << "ws", "+", "ws", "d", "ws", "+", "ws", "d", "ws", "c" >>

sscanf(str, fmt) == ScanFrom(fmt, 1, str, 1, << >>)

\* The context after sscanf stored its conversions through the pointers
\* given in fields, in order; a conversion past the fields is the trailer.
RECURSIVE StoreScanned(_, _, _, _)
StoreScanned(c, fields, vals, i) ==
    IF i > Len(vals) \/ i > Len(fields) THEN c
    ELSE StoreScanned([c EXCEPT ![fields[i]] = vals[i]], fields, vals, i + 1)

PipeUrl == << "p", "i", "p", "e", ":" >>

\* The URL parsing of nvfbc_read_header: the context after it.
ParseUrl(c, u) ==
    IF u.null \/ u.str = << >> \/ u.str = PipeUrl THEN c
    ELSE
      LET r1 == sscanf(u.str, FmtSizePos)
          c1 == StoreScanned(c, << "w", "h", "x", "y" >>, r1.vals, 1)
      IN  IF ScanCount(r1) # 2 /\ ScanCount(r1) # 4
          THEN LET c2 == [c1 EXCEPT !.w = 0, !.h = 0]
                   r2 == sscanf(u.str, FmtPos)
                   c3 == StoreScanned(c2, << "x", "y" >>, r2.vals, 1)
               IN  IF ScanCount(r2) # 2
                   THEN [c3 EXCEPT !.x = 0, !.y = 0,
                                   !.output_name = [null |-> FALSE, str |-> u.str]]
                   ELSE c3
          ELSE c1


-----------------------------------------------------------------------------
(* Strings, outputs and the inputs of the model *)

NullStr == [null |-> TRUE, str |-> << >>]

Str(s) == [null |-> FALSE, str |-> s]

\* The URLs the model opens: NULL and, in this order,
\*   ""                     
\*   "pipe:"                
\*   "2x2"                  
\*   "2x2+1+1"              
\*   "4x3+0+0"              
\*   "0x0"                  
\*   "0x2"                  
\*   "5x3"                  
\*   "2x2+3+0"              
\*   "+1+1"                 
\*   "+5+0"                 
\*   "-1x2"                 
\*   "2x-1"                 
\*   "2x2+-1+0"             
\*   "+-1+0"                
\*   "1x1+2147483647+0"     
\*   "2x2x"                 
\*   " 2 x 2 "              
\*   "2x2+1"                
\*   "2x2+1+1z"             
\*   "+1+1z"                
\*   "DP-0"                 
\*   "HDMI-0"               
\*   "VGA-0"                
Urls ==
    { NullStr,
      Str(<< >>),
      Str(<< "p", "i", "p", "e", ":" >>),
      Str(<< "2", "x", "2" >>),
      Str(<< "2", "x", "2", "+", "1", "+", "1" >>),
      Str(<< "4", "x", "3", "+", "0", "+", "0" >>),
      Str(<< "0", "x", "0" >>),
      Str(<< "0", "x", "2" >>),
      Str(<< "5", "x", "3" >>),
      Str(<< "2", "x", "2", "+", "3", "+", "0" >>),
      Str(<< "+", "1", "+", "1" >>),
      Str(<< "+", "5", "+", "0" >>),
      Str(<< "-", "1", "x", "2" >>),
      Str(<< "2", "x", "-", "1" >>),
      Str(<< "2", "x", "2", "+", "-", "1", "+", "0" >>),
      Str(<< "+", "-", "1", "+", "0" >>),
      Str(<< "1", "x", "1", "+", "2", "1", "4", "7", "4", "8", "3", "6", "4", "7", "+", "0" >>),
      Str(<< "2", "x", "2", "x" >>),
      Str(<< " ", "2", " ", "x", " ", "2", " " >>),
      Str(<< "2", "x", "2", "+", "1" >>),
      Str(<< "2", "x", "2", "+", "1", "+", "1", "z" >>),
      Str(<< "+", "1", "+", "1", "z" >>),
      Str(<< "D", "P", "-", "0" >>),
      Str(<< "H", "D", "M", "I", "-", "0" >>),
      Str(<< "V", "G", "A", "-", "0" >>) }

\* URLs opened with other options than the default ones
BaseUrls == { NullStr, Str(<< "D", "P", "-", "0" >>) }

Output(id, name, x, y, w, h) ==
    [dwId |-> id, name |-> name, trackedBox |-> [x |-> x, y |-> y, w |-> w, h |-> h]]

NameDP0 == << "D", "P", "-", "0" >>

NameHDMI0 == << "H", "D", "M", "I", "-", "0" >>

\* The lists of connected outputs nvFBCGetStatus may report
OutputLists ==
    { << >>,
      << Output(7, NameHDMI0, 0, 0, 2, 3) >>,
      << Output(7, NameHDMI0, 0, 0, 2, 3), Output(8, NameDP0, 2, 0, 2, 3) >>,
      << Output(8, NameDP0, 2, 0, 2, 3), Output(9, NameDP0, 0, 0, 4, 3) >> }

\* The sizes of the default X screen
ScreenSizes == { [w |-> 4, h |-> 3] }

PixelFormats == { "AV_PIX_FMT_BGRA", "AV_PIX_FMT_NV12", "AV_PIX_FMT_YUV420P" }

\* Values of the video_size option; 0x0 when the option is not given
VideoSizes == { [w |-> 0, h |-> 0], [w |-> 2, h |-> 2], [w |-> 32768, h |-> 32768] }

\* Values of the framerate option
Framerates == { [num |-> 500000, den |-> 1], [num |-> 3000000, den |-> 1] }

\* Values of the device option; NULL when the option is not given
DeviceNames == { NullStr, Str(<< "0" >>) }

\* Errors the CUDA helpers of libavutil return
HwErrors == { AVERROR(ENOMEM), AVERROR_EXTERNAL }


-----------------------------------------------------------------------------
(* The context and the helpers of the handlers *)

NullDl == [null |-> TRUE, lib |-> FALSE, NvFBCCreateInstance |-> FALSE]

\* priv_data as the framework allocates it: zeroed, then the options set
NewContext(format, video_size, framerate, device) ==
    [ x |-> 0, y |-> 0, w |-> 0, h |-> 0,
      frame_width |-> video_size.w, frame_height |-> video_size.h,
      output_name |-> NullStr, output_id |-> 0,
      format |-> format, format_idx |-> 0,
      hwdevice_name |-> device, hwdevice_ref |-> FALSE, hwframes_ref |-> FALSE,
      framerate |-> framerate, frame_duration |-> 0, time_frame |-> 0,
      dl |-> NullDl, funcs |-> FALSE,
      has_handle |-> 0, has_capture_session |-> 0 ]

\* The value of the locals nv_res and pts while no handler runs
NoStatus == "NVFBC_SUCCESS"

NoPacket == [filled |-> FALSE, pts |-> 0, duration |-> 0, trusted |-> FALSE]

Call(fn, ok) == [fn |-> fn, ok |-> ok]

Success(st) == st = "NVFBC_SUCCESS"

FFMAX(a, b) == IF a > b THEN a ELSE b

\* The table of this build
ErrorTable == nvfbc_errors(build.v18)

\* nvfbc_free_functions freeing the structure without closing the library
nvfbc_free_functions_leaking(dl) == [dl |-> NullDl, log |-> << >>]

\* nvfbc_free_functions(&dl): the pointer it leaves and the calls it makes
nvfbc_free_functions(dl) ==
    [ dl |-> NullDl,
      log |-> IF ~dl.null /\ dl.lib THEN << Call("dlclose", TRUE) >> ELSE << >> ]

\* nvfbc_load_functions(&dl, logctx) when calloc, dlopen and dlsym behave as
\* outcome says: the value returned, the pointer left and the calls made
nvfbc_load_functions(dl, outcome) ==
    LET pre == nvfbc_free_functions(dl)
        opened(sym) == [null |-> FALSE, lib |-> TRUE, NvFBCCreateInstance |-> sym]
        unopened == [null |-> FALSE, lib |-> FALSE, NvFBCCreateInstance |-> FALSE]
    IN  CASE outcome = "calloc_fails" ->
               [ret |-> -1, dl |-> NullDl, log |-> pre.log]
          [] outcome = "dlopen_fails" ->
               [ret |-> -1, dl |-> nvfbc_free_functions(unopened).dl,
                log |-> pre.log \o << Call("dlopen", FALSE) >>
                                \o nvfbc_free_functions(unopened).log]
          [] outcome = "dlsym_fails" ->
               [ret |-> -1, dl |-> nvfbc_free_functions(opened(FALSE)).dl,
                log |-> pre.log \o << Call("dlopen", TRUE), Call("dlsym", FALSE) >>
                                \o nvfbc_free_functions(opened(FALSE)).log]
          [] OTHER ->
               [ret |-> 0, dl |-> opened(TRUE),
                log |-> pre.log \o << Call("dlopen", TRUE), Call("dlsym", TRUE) >>]

LoadOutcomes == { "ok", "calloc_fails", "dlopen_fails", "dlsym_fails" }

\* nvfbc_read_close destroying the handle before the capture session
read_close_calls_handle_first(c, d1, d2) ==
       (IF c.has_handle # 0
        THEN << Call("nvFBCDestroyHandle", d2) >> ELSE << >>)
    \o (IF c.has_capture_session # 0
        THEN << Call("nvFBCDestroyCaptureSession", d1) >> ELSE << >>)
    \o (IF c.hwframes_ref THEN << Call("av_buffer_unref(hwframes_ref)", TRUE) >> ELSE << >>)
    \o (IF c.hwdevice_ref THEN << Call("av_buffer_unref(hwdevice_ref)", TRUE) >> ELSE << >>)
    \o nvfbc_free_functions(c.dl).log

\* nvfbc_read_close destroying the handle only where it destroys a capture
\* session
read_close_calls_nested(c, d1, d2) ==
       (IF c.has_capture_session # 0
        THEN << Call("nvFBCDestroyCaptureSession", d1) >>
             \o (IF c.has_handle # 0
                 THEN << Call("nvFBCDestroyHandle", d2) >> ELSE << >>)
        ELSE << >>)
    \o (IF c.hwframes_ref THEN << Call("av_buffer_unref(hwframes_ref)", TRUE) >> ELSE << >>)
    \o (IF c.hwdevice_ref THEN << Call("av_buffer_unref(hwdevice_ref)", TRUE) >> ELSE << >>)
    \o nvfbc_free_functions(c.dl).log

\* nvfbc_read_close giving up when the capture session cannot be destroyed
read_close_calls_giving_up(c, d1, d2) ==
    IF c.has_capture_session # 0 /\ ~d1
    THEN << Call("nvFBCDestroyCaptureSession", d1) >>
    ELSE    (IF c.has_capture_session # 0
             THEN << Call("nvFBCDestroyCaptureSession", d1) >> ELSE << >>)
         \o (IF c.has_handle # 0
             THEN << Call("nvFBCDestroyHandle", d2) >> ELSE << >>)
         \o (IF c.hwframes_ref THEN << Call("av_buffer_unref(hwframes_ref)", TRUE) >> ELSE << >>)
         \o (IF c.hwdevice_ref THEN << Call("av_buffer_unref(hwdevice_ref)", TRUE) >> ELSE << >>)
         \o nvfbc_free_functions(c.dl).log

\* The calls nvfbc_read_close makes in context c, in order; d1 and d2 tell
\* whether the two destroy calls return NVFBC_SUCCESS
read_close_calls(c, d1, d2) ==
       (IF c.has_capture_session # 0
        THEN << Call("nvFBCDestroyCaptureSession", d1) >> ELSE << >>)
    \o (IF c.has_handle # 0
        THEN << Call("nvFBCDestroyHandle", d2) >> ELSE << >>)
    \o (IF c.hwframes_ref THEN << Call("av_buffer_unref(hwframes_ref)", TRUE) >> ELSE << >>)
    \o (IF c.hwdevice_ref THEN << Call("av_buffer_unref(hwdevice_ref)", TRUE) >> ELSE << >>)
    \o nvfbc_free_functions(c.dl).log

\* nvfbc_read_close leaving has_capture_session as it finds it
read_close_ctx_keeps_session(c) ==
    [c EXCEPT !.has_handle = 0,
              !.hwframes_ref = FALSE, !.hwdevice_ref = FALSE,
              !.dl = nvfbc_free_functions(c.dl).dl]

\* nvfbc_read_close leaving the pointer to the loader structure as it finds it
read_close_ctx_keeps_dl(c) ==
    [c EXCEPT !.has_capture_session = 0, !.has_handle = 0,
              !.hwframes_ref = FALSE, !.hwdevice_ref = FALSE]

\* The context nvfbc_read_close leaves
read_close_ctx(c) ==
    [c EXCEPT !.has_capture_session = 0, !.has_handle = 0,
              !.hwframes_ref = FALSE, !.hwdevice_ref = FALSE,
              !.dl = nvfbc_free_functions(c.dl).dl]

\* The possible values of a + b > lim in C for ints a and b: the comparison
\* when the sum is an int, either value when the addition overflows
\* (signed overflow is undefined)
SumExceeds(a, b, lim) ==
    IF (b > 0 /\ a > INT_MAX - b) \/ (b < 0 /\ a < (-INT_MAX - 1) - b)
    THEN BOOLEAN
    ELSE { a + b > lim }

\* The capture region with both sizes defaulted as soon as one of them is 0
DefaultRegionBoth(c, scr) ==
    IF c.output_name.null /\ (c.w = 0 \/ c.h = 0)
    THEN [c EXCEPT !.w = FFMAX(scr.w - c.x, 0), !.h = FFMAX(scr.h - c.y, 0)]
    ELSE c

\* The capture region nvfbc_read_header computes when no output is named
DefaultRegion(c, scr) ==
    IF c.output_name.null
    THEN [c EXCEPT !.w = IF c.w = 0 THEN FFMAX(scr.w - c.x, 0) ELSE c.w,
                   !.h = IF c.h = 0 THEN FFMAX(scr.h - c.y, 0) ELSE c.h]
    ELSE c

\* Index of the last output of outs, from i on, named name; 0 if none
RECURSIVE FindOutputLast(_, _, _)
FindOutputLast(name, outs, i) ==
    IF i > Len(outs) THEN 0
    ELSE IF FindOutputLast(name, outs, i + 1) > 0 THEN FindOutputLast(name, outs, i + 1)
    ELSE IF outs[i].name = name THEN i
    ELSE 0

\* Index of the first output of outs, from i on, named name; 0 if none
RECURSIVE FindOutput(_, _, _)
FindOutput(name, outs, i) ==
    IF i > Len(outs) THEN 0
    ELSE IF outs[i].name = name THEN i
    ELSE FindOutput(name, outs, i + 1)

\* create_capture_handle defaulting the frame size before it looks the output up
AfterStatusSizeFirst(c, outs) ==
    LET i == FindOutput(c.output_name.str, outs, 1)
        c1 == [c EXCEPT
                 !.frame_width = IF c.frame_width = 0 THEN c.w ELSE c.frame_width,
                 !.frame_height = IF c.frame_height = 0 THEN c.h ELSE c.frame_height]
    IN  IF ~c.output_name.null /\ i = 0
        THEN [ret |-> AVERROR(EINVAL), ctx |-> c]
        ELSE [ret |-> 0,
              ctx |-> IF ~c.output_name.null
                      THEN [c1 EXCEPT !.x = outs[i].trackedBox.x, !.y = outs[i].trackedBox.y,
                                      !.w = outs[i].trackedBox.w, !.h = outs[i].trackedBox.h,
                                      !.output_id = outs[i].dwId]
                      ELSE c1]

\* create_capture_handle after nvFBCGetStatus reported that a session can be
\* created, and the outputs outs: the value returned and the context
AfterStatus(c, outs) ==
    LET i == FindOutput(c.output_name.str, outs, 1)
        c1 == IF ~c.output_name.null /\ i > 0
              THEN [c EXCEPT !.x = outs[i].trackedBox.x, !.y = outs[i].trackedBox.y,
                             !.w = outs[i].trackedBox.w, !.h = outs[i].trackedBox.h,
                             !.output_id = outs[i].dwId]
              ELSE c
    IN  IF ~c.output_name.null /\ i = 0
        THEN [ret |-> AVERROR(EINVAL), ctx |-> c]
        ELSE [ret |-> 0,
              ctx |-> [c1 EXCEPT
                         !.frame_width = IF c1.frame_width = 0 THEN c1.w ELSE c1.frame_width,
                         !.frame_height = IF c1.frame_height = 0 THEN c1.h ELSE c1.frame_height]]

\* frame_size_bits / 8 + AV_INPUT_BUFFER_PADDING_SIZE > INT_MAX of
\* create_stream, frame_size_bits being the 64-bit product
\* frame_width * frame_height * bpp.  The product is compared through
\* divisions so that no intermediate value leaves the 32-bit integers.
AV_INPUT_BUFFER_PADDING_SIZE == 64

FrameTooLarge(fw, fh, bpp) ==
    LET mag(v) == IF v < 0 THEN -v ELSE v
        positive == (fw > 0 /\ fh > 0) \/ (fw < 0 /\ fh < 0)
        \* least value of frame_size_bits / 8 that is too large
        least == INT_MAX - AV_INPUT_BUFFER_PADDING_SIZE + 1
        \* least value of frame_width * frame_height that is too large:
        \* 8 * least / bpp rounded up
        pixels == 8 * (least \div bpp) + (8 * (least % bpp) + bpp - 1) \div bpp
    IN  /\ positive
        /\ \/ mag(fw) > INT_MAX \div mag(fh)
           \/ mag(fw) * mag(fh) >= pixels

\* The stream create_stream fills
NewStream(c) ==
    [ codec_type |-> "AVMEDIA_TYPE_VIDEO",
      width |-> c.frame_width, height |-> c.frame_height,
      avg_frame_rate |-> c.framerate,
      codec_id |-> IF c.hwdevice_ref THEN "AV_CODEC_ID_WRAPPED_AVFRAME"
                   ELSE "AV_CODEC_ID_RAWVIDEO",
      format |-> IF c.hwdevice_ref THEN "AV_PIX_FMT_CUDA" ELSE c.format ]

\* Whether nvfbc_read_header takes the CUDA branch
UseCuda(c) == build.CONFIG_CUDA /\ ~c.hwdevice_name.null

\* nvfbc_read_packet choosing its branch by the build alone
PacketToCudaAlways(c) == build.CONFIG_CUDA

\* Whether nvfbc_read_packet takes the CUDA branch
PacketToCuda(c) == build.CONFIG_CUDA /\ c.hwdevice_ref


-----------------------------------------------------------------------------
(* Initial states: the demuxer allocated, its options set, not yet opened *)

Builds == [CONFIG_CUDA : BOOLEAN, v18 : BOOLEAN]

\* Whether o is an open with the default options in the default build
DefaultOptions(o) ==
    /\ o.format = "AV_PIX_FMT_BGRA"
    /\ o.video_size = [w |-> 0, h |-> 0]
    /\ o.framerate = [num |-> 500000, den |-> 1]
    /\ o.device.null
    /\ o.build.CONFIG_CUDA

\* Whether at most one option of o differs from its default
OneOptionSet(o) ==
    Cardinality({ f \in {"format", "video_size", "framerate", "device"} :
                    o[f] # [format |-> "AV_PIX_FMT_BGRA",
                            video_size |-> [w |-> 0, h |-> 0],
                            framerate |-> [num |-> 500000, den |-> 1],
                            device |-> NullStr][f] }) <= 1

\* The opens of the model: every combination of the options for a NULL URL at
\* the default framerate, one option set at a time for the other URL of
\* BaseUrls and for the other framerate, the default options for the other
\* URLs and for a build against an API older than 1.8.  The device option
\* exists only in a build with CONFIG_CUDA.
Opens ==
    { o \in [url : Urls, format : PixelFormats, video_size : VideoSizes,
             framerate : Framerates, device : DeviceNames, build : Builds] :
        /\ ~o.build.CONFIG_CUDA => o.device.null
        /\ o.url \notin BaseUrls => DefaultOptions(o) /\ o.build.v18
        /\ ~o.url.null \/ o.framerate.num # 500000 => OneOptionSet(o)
        /\ ~o.build.v18 => DefaultOptions(o) /\ o.url.null }

Init ==
    \E o \in Opens :
        /\ build = o.build
        /\ url = o.url
        /\ ctx = NewContext(o.format, o.video_size, o.framerate, o.device)
        /\ pc = "idle"
        /\ res = 0
        /\ nv_res = NoStatus
        /\ clock = 0
        /\ display = "null"
        /\ screen = [w |-> 0, h |-> 0]
        /\ streams = << >>
        /\ pts = 0
        /\ delay = 0
        /\ pkt = NoPacket
        /\ calls = << >>
        /\ npackets = 0
        /\ grabs = << >>
        /\ t_rec = 0
        /\ t_ret = 0

\* av_gettime_relative(): the monotonic clock, which the wall clock is not
av_gettime_relative == clock

av_gettime == clock + WallOffset

-----------------------------------------------------------------------------
(* nvfbc_read_header *)

\* nvfbc_load_libraries, first half: nvfbc_load_functions
LoadFunctions ==
    /\ pc = "idle"
    /\ \E outcome \in LoadOutcomes :
         LET r == nvfbc_load_functions(ctx.dl, outcome)
         IN  /\ ctx' = [ctx EXCEPT !.dl = r.dl]
             /\ calls' = calls \o r.log
             /\ res' = r.ret
             /\ pc' = IF r.ret < 0 THEN "h_error" ELSE "h_instance"
    /\ UNCHANGED <<delay, build, url, nv_res, clock, display, screen, streams, pts, pkt,
                   npackets, grabs, t_rec, t_ret>>

\* nvfbc_load_libraries, second half: NvFBCCreateInstance
CreateInstance ==
    /\ pc = "h_instance"
    /\ \E st \in Statuses :
         /\ nv_res' = st
         /\ calls' = Append(calls, Call("NvFBCCreateInstance", Success(st)))
         /\ ctx' = [ctx EXCEPT !.funcs = Success(st)]
         /\ res' = IF Success(st) THEN 0 ELSE error_nv2av(ErrorTable, st).averr
         /\ pc' = IF res' < 0 THEN "h_error" ELSE "h_display"
    /\ UNCHANGED <<delay, build, url, clock, display, screen, streams, pts, pkt,
                   npackets, grabs, t_rec, t_ret>>

\* XOpenDisplay(NULL) and the size of its default screen
OpenDisplay ==
    /\ pc = "h_display"
    /\ \/ /\ display' = "null"
          /\ res' = AVERROR(EIO)
          /\ pc' = "h_error"
          /\ UNCHANGED screen
       \/ /\ display' = "open"
          /\ screen' \in ScreenSizes
          /\ pc' = "h_url"
          /\ UNCHANGED res
    /\ UNCHANGED <<delay, build, url, ctx, nv_res, clock, streams, pts, pkt, calls,
                   npackets, grabs, t_rec, t_ret>>

\* The URL parsed, the capture region computed and checked
CheckRegion ==
    /\ pc = "h_url"
    /\ LET c == DefaultRegion(ParseUrl(ctx, url), screen)
       IN  /\ ctx' = c
           /\ \E ex \in SumExceeds(c.x, c.w, screen.w),
                 ey \in SumExceeds(c.y, c.h, screen.h) :
                IF c.output_name.null /\ (c.x < 0 \/ c.y < 0 \/ ex \/ ey)
                THEN res' = AVERROR(EINVAL) /\ pc' = "h_error"
                ELSE res' = res /\ pc' = "h_streaminfo"
    /\ UNCHANGED <<delay, build, url, nv_res, clock, display, screen, streams, pts, pkt,
                   calls, npackets, grabs, t_rec, t_ret>>

\* The stream information computed and the pixel format looked up
StreamInfo ==
    /\ pc = "h_streaminfo"
    /\ ctx' = [ctx EXCEPT !.frame_duration = FrameDuration(ctx.framerate),
                          !.time_frame = clock,
                          !.format_idx = FormatLookup(ctx.format)]
    /\ t_rec' = clock
    /\ IF ctx'.format_idx >= NB_FORMATS
       THEN res' = AVERROR(EINVAL) /\ pc' = "h_error"
       ELSE res' = res /\ pc' = "h_handle"
    /\ UNCHANGED <<delay, build, url, nv_res, clock, display, screen, streams, pts, pkt,
                   calls, npackets, grabs, t_ret>>

\* nvfbc_read_header going on without looking at what create_capture_handle
\* returned
AfterCaptureHandleUnchecked(ret) ==
    IF UseCuda(ctx) THEN "h_hwdevice" ELSE "h_session_sys"

\* Where nvfbc_read_header goes once create_capture_handle returned ret
AfterCaptureHandle(ret) ==
    IF ret < 0 THEN "h_error"
    ELSE IF UseCuda(ctx) THEN "h_hwdevice" ELSE "h_session_sys"

\* create_capture_handle: nvFBCCreateHandle
CreateHandle ==
    /\ pc = "h_handle"
    /\ \E st \in Statuses :
         /\ nv_res' = st
         /\ calls' = Append(calls, Call("nvFBCCreateHandle", Success(st)))
         /\ IF Success(st)
            THEN /\ ctx' = [ctx EXCEPT !.has_handle = 1]
                 /\ res' = res
                 /\ pc' = "h_status"
            ELSE /\ ctx' = ctx
                 /\ res' = error_nv2av(ErrorTable, st).averr
                 /\ pc' = AfterCaptureHandle(res')
    /\ UNCHANGED <<delay, build, url, clock, display, screen, streams, pts, pkt,
                   npackets, grabs, t_rec, t_ret>>

\* create_capture_handle going on whatever bCanCreateNow is
StatusResultUnchecked(c, can, outs) == AfterStatus(c, outs)

\* create_capture_handle after a successful nvFBCGetStatus that reported
\* bCanCreateNow as can and the outputs outs
StatusResult(c, can, outs) ==
    IF ~can THEN [ret |-> AVERROR_EXTERNAL, ctx |-> c] ELSE AfterStatus(c, outs)

\* What nvFBCGetStatus returned, as far as create_capture_handle reads it:
\* bCanCreateNow, and the outputs when an output is to be looked up
StatusCall(st, can, outs) ==
    [ fn |-> "nvFBCGetStatus", ok |-> Success(st),
      bCanCreateNow |-> Success(st) /\ can,
      outputs |-> IF Success(st) /\ ~ctx.output_name.null THEN outs ELSE << >> ]

\* create_capture_handle: nvFBCGetStatus, then the requested output looked up
\* and the frame size defaulted
GetStatus ==
    /\ pc = "h_status"
    /\ \E st \in Statuses, bCanCreateNow \in BOOLEAN, outs \in OutputLists :
         /\ nv_res' = st
         /\ calls' = Append(calls, StatusCall(st, bCanCreateNow, outs))
         /\ IF ~Success(st)
            THEN ctx' = ctx /\ res' = error_nv2av(ErrorTable, st).averr
            ELSE /\ ctx' = StatusResult(ctx, bCanCreateNow, outs).ctx
                 /\ res' = StatusResult(ctx, bCanCreateNow, outs).ret
         /\ pc' = AfterCaptureHandle(res')
    /\ UNCHANGED <<delay, build, url, clock, display, screen, streams, pts, pkt,
                   npackets, grabs, t_rec, t_ret>>

\* create_capture_session_tocuda: av_hwdevice_ctx_create
HwDeviceCreate ==
    /\ pc = "h_hwdevice"
    /\ \/ \E e \in HwErrors :
            /\ calls' = Append(calls, Call("av_hwdevice_ctx_create", FALSE))
            /\ res' = e
            /\ pc' = "h_error"
            /\ UNCHANGED ctx
       \/ /\ calls' = Append(calls, Call("av_hwdevice_ctx_create", TRUE))
          /\ ctx' = [ctx EXCEPT !.hwdevice_ref = TRUE]
          /\ pc' = "h_hwframes"
          /\ UNCHANGED res
    /\ UNCHANGED <<delay, build, url, nv_res, clock, display, screen, streams, pts, pkt,
                   npackets, grabs, t_rec, t_ret>>

\* create_capture_session_tocuda: av_hwframe_ctx_alloc and av_hwframe_ctx_init
HwFramesCreate ==
    /\ pc = "h_hwframes"
    /\ \/ /\ calls' = Append(calls, Call("av_hwframe_ctx_alloc", FALSE))
          /\ res' = AVERROR(ENOMEM)
          /\ pc' = "h_error"
          /\ UNCHANGED ctx
       \/ \E e \in HwErrors :
            /\ calls' = calls \o << Call("av_hwframe_ctx_alloc", TRUE),
                                    Call("av_hwframe_ctx_init", FALSE) >>
            /\ ctx' = [ctx EXCEPT !.hwframes_ref = TRUE]
            /\ res' = e
            /\ pc' = "h_error"
       \/ /\ calls' = calls \o << Call("av_hwframe_ctx_alloc", TRUE),
                                  Call("av_hwframe_ctx_init", TRUE) >>
          /\ ctx' = [ctx EXCEPT !.hwframes_ref = TRUE]
          /\ pc' = "h_session_cuda"
          /\ UNCHANGED res
    /\ UNCHANGED <<delay, build, url, nv_res, clock, display, screen, streams, pts, pkt,
                   npackets, grabs, t_rec, t_ret>>

\* The parameters of nvFBCCreateCaptureSession that the properties read
SessionCall(type, st) ==
    [ fn |-> "nvFBCCreateCaptureSession", ok |-> Success(st), eCaptureType |-> type,
      eBufferFormat |-> "", format_idx |-> ctx.format_idx,
      eTrackingType |-> IF ctx.output_name.null THEN "NVFBC_TRACKING_SCREEN"
                        ELSE "NVFBC_TRACKING_OUTPUT",
      dwOutputId |-> ctx.output_id,
      captureBox |-> [x |-> ctx.x, y |-> ctx.y, w |-> ctx.w, h |-> ctx.h],
      frameSize |-> [w |-> ctx.frame_width, h |-> ctx.frame_height] ]

\* The parameters of nvFBCToSysSetUp / nvFBCToCudaSetUp that the properties read
SetUpCall(fn, st) ==
    [ fn |-> fn, ok |-> Success(st), eCaptureType |-> "",
      eBufferFormat |-> FormatAt(ctx.format_idx).nvfbc_fmt,
      format_idx |-> ctx.format_idx ]

\* create_capture_session_tocuda: the CUDA context pushed, then
\* nvFBCCreateCaptureSession; the context is popped on failure
CreateSessionToCuda ==
    /\ pc = "h_session_cuda"
    /\ \/ \E e \in HwErrors :
            /\ res' = e
            /\ pc' = "h_error"
            /\ UNCHANGED <<ctx, calls, nv_res>>
       \/ \E st \in Statuses :
            /\ nv_res' = st
            /\ calls' = Append(calls, SessionCall("NVFBC_CAPTURE_SHARED_CUDA", st))
            /\ IF Success(st)
               THEN /\ ctx' = [ctx EXCEPT !.has_capture_session = 1]
                    /\ res' = res
                    /\ pc' = "h_setup_cuda"
               ELSE /\ ctx' = ctx
                    /\ res' = error_nv2av(ErrorTable, st).averr
                    /\ pc' = IF res' < 0 THEN "h_error" ELSE "h_stream"
    /\ UNCHANGED <<delay, build, url, clock, display, screen, streams, pts, pkt,
                   npackets, grabs, t_rec, t_ret>>

\* create_capture_session_tocuda: nvFBCToCudaSetUp, the CUDA context popped
SetUpToCuda ==
    /\ pc = "h_setup_cuda"
    /\ \E st \in Statuses :
         /\ nv_res' = st
         /\ calls' = Append(calls, SetUpCall("nvFBCToCudaSetUp", st))
         /\ res' = IF Success(st) THEN 0 ELSE error_nv2av(ErrorTable, st).averr
         /\ pc' = IF res' < 0 THEN "h_error" ELSE "h_stream"
    /\ UNCHANGED <<delay, build, url, ctx, clock, display, screen, streams, pts, pkt,
                   npackets, grabs, t_rec, t_ret>>

\* create_capture_session_tosys: nvFBCCreateCaptureSession
CreateSessionToSys ==
    /\ pc = "h_session_sys"
    /\ \E st \in Statuses :
         /\ nv_res' = st
         /\ calls' = Append(calls, SessionCall("NVFBC_CAPTURE_TO_SYS", st))
         /\ IF Success(st)
            THEN /\ ctx' = [ctx EXCEPT !.has_capture_session = 1]
                 /\ res' = res
                 /\ pc' = "h_setup_sys"
            ELSE /\ ctx' = ctx
                 /\ res' = error_nv2av(ErrorTable, st).averr
                 /\ pc' = IF res' < 0 THEN "h_error" ELSE "h_stream"
    /\ UNCHANGED <<delay, build, url, clock, display, screen, streams, pts, pkt,
                   npackets, grabs, t_rec, t_ret>>

\* create_capture_session_tosys: nvFBCToSysSetUp
SetUpToSys ==
    /\ pc = "h_setup_sys"
    /\ \E st \in Statuses :
         /\ nv_res' = st
         /\ calls' = Append(calls, SetUpCall("nvFBCToSysSetUp", st))
         /\ res' = IF Success(st) THEN 0 ELSE error_nv2av(ErrorTable, st).averr
         /\ pc' = IF res' < 0 THEN "h_error" ELSE "h_stream"
    /\ UNCHANGED <<delay, build, url, ctx, clock, display, screen, streams, pts, pkt,
                   npackets, grabs, t_rec, t_ret>>

\* create_stream adding the stream before it checks the frame size
CreateStreamFirst ==
    /\ pc = "h_stream"
    /\ \E allocated \in BOOLEAN :
         IF ~allocated
         THEN res' = AVERROR(ENOMEM) /\ pc' = "h_error"
              /\ UNCHANGED <<streams, display, t_ret, nv_res>>
         ELSE IF FrameTooLarge(ctx.frame_width, ctx.frame_height,
                               FormatAt(ctx.format_idx).bpp)
         THEN res' = AVERROR_PATCHWELCOME /\ pc' = "h_error"
              /\ streams' = Append(streams, NewStream(ctx))
              /\ UNCHANGED <<display, t_ret, nv_res>>
         ELSE /\ streams' = Append(streams, NewStream(ctx))
              /\ display' = "closed"
              /\ res' = 0
              /\ pc' = "ready"
              /\ t_ret' = clock
              /\ nv_res' = NoStatus
    /\ UNCHANGED <<delay, build, url, ctx, clock, screen, pts, pkt, calls,
                   npackets, grabs, t_rec>>

\* create_stream, then the successful return of nvfbc_read_header, which
\* closes the display
CreateStream ==
    /\ pc = "h_stream"
    /\ \E allocated \in BOOLEAN :
         IF FrameTooLarge(ctx.frame_width, ctx.frame_height,
                          FormatAt(ctx.format_idx).bpp)
         THEN res' = AVERROR_PATCHWELCOME /\ pc' = "h_error"
              /\ UNCHANGED <<streams, display, t_ret, nv_res>>
         ELSE IF ~allocated
         THEN res' = AVERROR(ENOMEM) /\ pc' = "h_error"
              /\ UNCHANGED <<streams, display, t_ret, nv_res>>
         ELSE /\ streams' = Append(streams, NewStream(ctx))
              /\ display' = "closed"
              /\ res' = 0
              /\ pc' = "ready"
              /\ t_ret' = clock
              /\ nv_res' = NoStatus
    /\ UNCHANGED <<delay, build, url, ctx, clock, screen, pts, pkt, calls,
                   npackets, grabs, t_rec>>

\* The error exit of nvfbc_read_header: nvfbc_read_close, then the display
\* closed if it was opened
HeaderError ==
    /\ pc = "h_error"
    /\ \E d1 \in BOOLEAN, d2 \in BOOLEAN :
         calls' = calls \o read_close_calls(ctx, d1, d2)
    /\ ctx' = read_close_ctx(ctx)
    /\ display' = IF display = "open" THEN "closed" ELSE display
    /\ pc' = "failed"
    /\ t_ret' = clock
    /\ nv_res' = NoStatus
    /\ UNCHANGED <<delay, build, url, res, clock, screen, streams, pts, pkt,
                   npackets, grabs, t_rec>>

-----------------------------------------------------------------------------
(* nvfbc_read_close, called by the framework *)

nvfbc_read_close ==
    /\ pc \in {"ready", "failed", "closed"}
    /\ \E d1 \in BOOLEAN, d2 \in BOOLEAN :
         calls' = calls \o read_close_calls(ctx, d1, d2)
    /\ ctx' = read_close_ctx(ctx)
    /\ res' = 0
    /\ pc' = "closed"
    /\ UNCHANGED <<delay, build, url, nv_res, clock, display, screen, streams, pts, pkt,
                   npackets, grabs, t_rec, t_ret>>

-----------------------------------------------------------------------------
(* nvfbc_read_packet *)

\* wait_frame waiting for the deadline of the frame before
WaitDelayPrevious(c, now) == c.time_frame - c.frame_duration - now

\* wait_frame(): the delay it computes at time now
WaitDelay(c, now) == c.time_frame - now

\* wait_frame taking the current time as the deadline when that has passed
NextDeadlineResync(c, now) ==
    IF now > c.time_frame + c.frame_duration THEN now
    ELSE c.time_frame + c.frame_duration

\* wait_frame: the deadline of the frame it waits for, at time now
NextDeadline(c, now) == c.time_frame + c.frame_duration

\* nvfbc_read_packet called with a blank packet: wait_frame advances the deadline
ReadPacket ==
    /\ pc = "ready"
    /\ npackets < MaxPackets
    /\ npackets' = npackets + 1
    /\ ctx' = [ctx EXCEPT !.time_frame = NextDeadline(ctx, clock)]
    /\ grabs' = << >>
    /\ pkt' = NoPacket
    /\ pc' = "p_wait"
    /\ UNCHANGED <<delay, build, url, res, nv_res, clock, display, screen, streams, pts,
                   calls, t_rec, t_ret>>

\* wait_frame leaving its loop only once the deadline is behind
DeadlineReachedStrict(c, now) == WaitDelay(c, now) < 0

\* wait_frame: the test that ends its loop, delay <= 0
DeadlineReached(c, now) == WaitDelay(c, now) <= 0

\* wait_frame: the deadline is ahead, av_usleep(delay).  The sleep may end
\* early or late, the clock having advanced.
WaitFrameSleep ==
    /\ pc = "p_wait"
    /\ ~DeadlineReached(ctx, clock)
    /\ delay' = WaitDelay(ctx, clock)
    /\ \E d \in 1..(WaitDelay(ctx, clock) + 1) :
         /\ clock + d <= MaxClock \/ d = WaitDelay(ctx, clock)
         /\ clock' = clock + d
    /\ UNCHANGED <<build, url, ctx, pc, res, nv_res, display, screen, streams, pts,
                   pkt, calls, npackets, grabs, t_rec, t_ret>>

\* wait_frame: the deadline is reached, the loop ends and the wall clock is returned
WaitFrameReturn ==
    /\ pc = "p_wait"
    /\ DeadlineReached(ctx, clock)
    /\ pts' = av_gettime
    /\ delay' = 0
    /\ pc' = IF PacketToCuda(ctx) THEN "p_grab_cuda" ELSE "p_grab_sys"
    /\ UNCHANGED <<build, url, ctx, res, nv_res, clock, display, screen, streams,
                   pkt, calls, npackets, grabs, t_rec, t_ret>>

\* A grab call that waits for a new frame: no flag set
GrabCallBlocking(fn, flags, st) ==
    [fn |-> fn, dwFlags |-> "NOFLAGS", dwTimeoutMs |-> 0, ok |-> Success(st)]

\* The parameters and the outcome of a grab call
GrabCall(fn, flags, st) ==
    [fn |-> fn, dwFlags |-> flags, dwTimeoutMs |-> 0, ok |-> Success(st)]

\* nvfbc_read_packet_tosys after wait_frame, to its return
GrabToSys ==
    /\ pc = "p_grab_sys"
    /\ \E st \in Statuses, created \in BOOLEAN :
         /\ grabs' = Append(grabs, GrabCall("nvFBCToSysGrabFrame",
                                            "NVFBC_TOSYS_GRAB_FLAGS_NOWAIT", st))
         /\ IF ~Success(st)
            THEN res' = error_nv2av(ErrorTable, st).averr /\ pkt' = pkt
            ELSE IF ~created
            THEN res' = AVERROR(ENOMEM) /\ pkt' = pkt
            ELSE /\ res' = 0
                 /\ pkt' = [filled |-> TRUE, pts |-> pts,
                            duration |-> ctx.frame_duration, trusted |-> FALSE]
    /\ pc' = "ready"
    /\ nv_res' = NoStatus
    /\ pts' = 0
    /\ UNCHANGED <<delay, build, url, ctx, clock, display, screen, streams, calls,
                   npackets, t_rec, t_ret>>

\* nvfbc_read_packet_tocuda after wait_frame: the CUDA context pushed, the
\* frame grabbed, the context popped, the frame wrapped in a packet, to its
\* return
GrabToCuda ==
    /\ pc = "p_grab_cuda"
    /\ \/ \E e \in HwErrors :
            /\ res' = e
            /\ UNCHANGED <<grabs, pkt>>
       \/ \E st \in Statuses, wrapped \in {"ok", "ENOMEM", "EINVAL"} :
            /\ grabs' = Append(grabs, GrabCall("nvFBCToCudaGrabFrame",
                                               "NVFBC_TOCUDA_GRAB_FLAGS_NOWAIT", st))
            /\ IF ~Success(st)
               THEN res' = error_nv2av(ErrorTable, st).averr /\ pkt' = pkt
               ELSE IF wrapped = "ENOMEM"
               THEN res' = AVERROR(ENOMEM) /\ pkt' = pkt
               ELSE IF wrapped = "EINVAL"
               THEN res' = AVERROR(EINVAL) /\ pkt' = pkt
               ELSE /\ res' = 0
                    /\ pkt' = [filled |-> TRUE, pts |-> pts,
                               duration |-> ctx.frame_duration, trusted |-> TRUE]
    /\ pc' = "ready"
    /\ nv_res' = NoStatus
    /\ pts' = 0
    /\ UNCHANGED <<delay, build, url, ctx, clock, display, screen, streams, calls,
                   npackets, t_rec, t_ret>>

-----------------------------------------------------------------------------
(* The clock *)

\* Time passes before nvfbc_read_header is called, in nvfbc_read_header while
\* the handle and the capture session are created, in nvfbc_read_packet
\* between wait_frame and the grab call, and between two calls of the
\* framework
Tick ==
    /\ \/ pc = "ready"
       \/ pc \in {"idle", "h_handle"} /\ clock - t_rec < MaxSetupTime
       \/ pc \in {"p_grab_sys", "p_grab_cuda"} /\ av_gettime - pts < MaxSetupTime
    /\ clock < MaxClock
    /\ clock' = clock + 1
    /\ UNCHANGED <<delay, build, url, ctx, pc, res, nv_res, display, screen, streams, pts,
                   pkt, calls, npackets, grabs, t_rec, t_ret>>

-----------------------------------------------------------------------------

Next ==
    \/ LoadFunctions
    \/ CreateInstance
    \/ OpenDisplay
    \/ CheckRegion
    \/ StreamInfo
    \/ CreateHandle
    \/ GetStatus
    \/ HwDeviceCreate
    \/ HwFramesCreate
    \/ CreateSessionToCuda
    \/ SetUpToCuda
    \/ CreateSessionToSys
    \/ SetUpToSys
    \/ CreateStream
    \/ HeaderError
    \/ nvfbc_read_close
    \/ ReadPacket
    \/ WaitFrameSleep
    \/ WaitFrameReturn
    \/ GrabToSys
    \/ GrabToCuda
    \/ Tick

Spec == Init /\ [][Next]_vars

-----------------------------------------------------------------------------
(* Acquisition and release of the resources, read from the call history *)

\* The call that acquires each resource
AcquireFn ==
    [ library |-> "dlopen", handle |-> "nvFBCCreateHandle",
      hwdevice |-> "av_hwdevice_ctx_create", hwframes |-> "av_hwframe_ctx_alloc",
      session |-> "nvFBCCreateCaptureSession" ]

\* The call that releases each resource
ReleaseFn ==
    [ library |-> "dlclose", handle |-> "nvFBCDestroyHandle",
      hwdevice |-> "av_buffer_unref(hwdevice_ref)",
      hwframes |-> "av_buffer_unref(hwframes_ref)",
      session |-> "nvFBCDestroyCaptureSession" ]

Resources == DOMAIN AcquireFn

\* Position in calls of the successful call fn; 0 if there is none
SucceededAt(fn) ==
    IF \E i \in DOMAIN calls : calls[i].fn = fn /\ calls[i].ok
    THEN CHOOSE i \in DOMAIN calls : calls[i].fn = fn /\ calls[i].ok
    ELSE 0

\* Position in calls of the first call of fn; 0 if there is none
CalledAt(fn) ==
    IF \E i \in DOMAIN calls : calls[i].fn = fn
    THEN CHOOSE i \in DOMAIN calls :
             calls[i].fn = fn /\ \A j \in 1..(i - 1) : calls[j].fn # fn
    ELSE 0

AcquiredAt(r) == SucceededAt(AcquireFn[r])

ReleasedAt(r) == CalledAt(ReleaseFn[r])

\* Every release follows the acquisition of its resource, and happens once
ReleasesAcquired ==
    \A r \in Resources :
        /\ ReleasedAt(r) > 0 => AcquiredAt(r) > 0 /\ AcquiredAt(r) < ReleasedAt(r)
        /\ Cardinality({ i \in DOMAIN calls : calls[i].fn = ReleaseFn[r] }) <= 1

\* C1, as stated: the resources are released in exactly the reverse of their
\* acquisition order, so that no resource is released before one that was
\* acquired after it.
C1_ExactReverse ==
    \A r \in Resources, q \in Resources :
        ReleasedAt(r) > 0 /\ ReleasedAt(q) > 0 /\ ReleasedAt(r) < ReleasedAt(q)
            => AcquiredAt(r) > AcquiredAt(q)

\* C1, amended: the resources are released in the order capture session,
\* handle, hardware frames context, hardware device, library.  This is the
\* reverse of their acquisition order but for the handle, which is released
\* before the two CUDA contexts although it was acquired before them; in
\* system-memory mode, where there is no CUDA context, it is the exact
\* reverse.
C1_ReverseButHandle ==
    /\ ReleasesAcquired
    /\ \A r \in Resources, q \in Resources :
        ReleasedAt(r) > 0 /\ ReleasedAt(q) > 0 /\ ReleasedAt(r) < ReleasedAt(q)
            => \/ AcquiredAt(r) > AcquiredAt(q)
               \/ r = "handle" /\ q \in {"hwdevice", "hwframes"}
    /\ AcquiredAt("hwdevice") = 0 => C1_ExactReverse

\* A CUDA session closed: all five resources acquired and released
C1_AllReleased ==
    /\ pc = "closed"
    /\ \A r \in Resources : ReleasedAt(r) > 0

-----------------------------------------------------------------------------
(* The handshake *)

\* Rank of the calls of the handshake in its order; the two set-up calls
\* share the last rank
HandshakeRank ==
    [ dlopen |-> 1, dlsym |-> 2, NvFBCCreateInstance |-> 3, nvFBCCreateHandle |-> 4,
      nvFBCGetStatus |-> 5, nvFBCCreateCaptureSession |-> 6,
      nvFBCToSysSetUp |-> 7, nvFBCToCudaSetUp |-> 7 ]

IsHandshakeCall(c) == c.fn \in DOMAIN HandshakeRank

\* The calls of the handshake made so far, in order
Handshake == SelectSeq(calls, IsHandshakeCall)

GrabFns == { "nvFBCToSysGrabFrame", "nvFBCToCudaGrabFrame" }

\* The set-up call that a grab call belongs to
SetUpOf(grab) ==
    IF grab = "nvFBCToSysGrabFrame" THEN "nvFBCToSysSetUp" ELSE "nvFBCToCudaSetUp"

\* C2: the calls of the handshake are made in the order library load (dlopen,
\* dlsym), NvFBCCreateInstance, nvFBCCreateHandle, nvFBCGetStatus,
\* nvFBCCreateCaptureSession, set-up; each is made only after all the earlier
\* ones succeeded; a grab call is made only after the set-up call of its
\* kind succeeded.
C2_HandshakeOrder ==
    /\ \A i \in DOMAIN Handshake :
         /\ HandshakeRank[Handshake[i].fn] = i
         /\ i < Len(Handshake) => Handshake[i].ok
    /\ \A i \in DOMAIN grabs :
         /\ grabs[i].fn \in GrabFns
         /\ Len(Handshake) = 7
         /\ Handshake[7].fn = SetUpOf(grabs[i].fn)
         /\ Handshake[7].ok

\* A frame grabbed after the whole handshake
C2_GrabAfterSetUp ==
    /\ grabs # << >>
    /\ Len(Handshake) = 7

-----------------------------------------------------------------------------
(* The stream *)

\* Positions of nvfbc_read_packet, which runs only after nvfbc_read_header
\* succeeded
PacketPositions == { "p_wait", "p_grab_sys", "p_grab_cuda" }

\* nvfbc_read_header has returned success, and the demuxer was not closed since
Opened == pc \in {"ready"} \cup PacketPositions

\* C3: nvfbc_read_header returning success has created exactly one stream, a
\* video stream; returning an error, it has created none.
C3_OneStream ==
    /\ Opened => Len(streams) = 1 /\ streams[1].codec_type = "AVMEDIA_TYPE_VIDEO"
    /\ pc = "ready" /\ npackets = 0 => res = 0
    /\ pc = "failed" => res < 0 /\ streams = << >>
    /\ pc = "closed" => Len(streams) <= 1

\* nvfbc_read_header just returned success
C3_HeaderSucceeded ==
    /\ pc = "ready"
    /\ npackets = 0
    /\ res = 0
    /\ Len(streams) = 1

-----------------------------------------------------------------------------
(* Pacing *)

GrabPositions == { "p_grab_sys", "p_grab_cuda" }

\* C4, as stated: after n calls of nvfbc_read_packet the deadline is the
\* monotonic time at the end of nvfbc_read_header plus n * frame_duration,
\* and the grab call is not issued before the clock reached it.
C4_DeadlineFromHeaderEnd ==
    Opened /\ npackets >= 1
        => /\ ctx.time_frame = t_ret + npackets * ctx.frame_duration
           /\ pc \in GrabPositions => clock >= t_ret + npackets * ctx.frame_duration

\* C4, amended: after n calls of nvfbc_read_packet the deadline is the
\* monotonic time nvfbc_read_header read when it computed the stream
\* information, before it created the handle and the capture session (so not
\* later than its end), plus n * frame_duration, and the grab call is not
\* issued before the clock reached it.
C4_DeadlineFromRecordedTime ==
    /\ Opened => t_rec <= t_ret
    /\ Opened /\ npackets >= 1
        => /\ ctx.time_frame = t_rec + npackets * ctx.frame_duration
           /\ pc \in GrabPositions => clock >= t_rec + npackets * ctx.frame_duration

\* The second packet about to be grabbed right at its deadline, in a session
\* whose set-up took time
C4_SecondGrabAtDeadline ==
    /\ pc \in GrabPositions
    /\ npackets = 2
    /\ ctx.frame_duration > 0
    /\ t_ret > t_rec
    /\ clock = ctx.time_frame

-----------------------------------------------------------------------------
(* The grab call of a request *)

NoWaitFlags == { "NVFBC_TOSYS_GRAB_FLAGS_NOWAIT", "NVFBC_TOCUDA_GRAB_FLAGS_NOWAIT" }

\* A grab call that blocks until the library has a new frame
Blocking(g) == g.dwFlags \notin NoWaitFlags

\* nvfbc_read_packet has returned
PacketReturned == pc = "ready" /\ npackets >= 1

\* C5, as stated: every packet request makes exactly one grab call, and the
\* call blocks until the library delivers a frame.
C5_OneBlockingGrab ==
    PacketReturned => Len(grabs) = 1 /\ Blocking(grabs[1])

\* C5, amended: every packet request makes at most one grab call, after its
\* pacing wait: exactly one in system-memory mode, and in CUDA mode exactly
\* one unless the CUDA context cannot be made current, in which case the
\* request fails without a grab call.  The call does not block: it is made
\* with the NOWAIT flag and a zero timeout.
C5_OneGrabNoWait ==
    /\ PacketReturned
        => /\ Len(grabs) <= 1
           /\ ~ctx.hwdevice_ref => Len(grabs) = 1
           /\ grabs = << >> => res \in HwErrors
    /\ pc \in PacketPositions => grabs = << >>
    /\ \A i \in DOMAIN grabs :
         /\ grabs[i].fn \in GrabFns
         /\ ~Blocking(grabs[i])
         /\ grabs[i].dwTimeoutMs = 0

\* A packet delivered by the one grab call of its request
C5_PacketGrabbed ==
    /\ PacketReturned
    /\ Len(grabs) = 1
    /\ grabs[1].ok
    /\ pkt.filled

-----------------------------------------------------------------------------
(* Error translation *)

InTable(tbl, st) == \E i \in DOMAIN tbl : tbl[i].nverr = st

\* The entry of tbl for the status st
EntryOf(tbl, st) == tbl[CHOOSE i \in DOMAIN tbl : tbl[i].nverr = st]

\* nvfbc_read_header is at its error exit because its last vendor call failed
HeaderVendorError == pc = "h_error" /\ ~Success(nv_res)

\* C6: whatever status nv_res a vendor call returned, error_nv2av gives for
\* it the host code and the description of its entry in the table of the
\* build (AVERROR_INPUT_CHANGED for NVFBC_ERR_MUST_RECREATE, AVERROR(ENOMEM)
\* for NVFBC_ERR_OUT_OF_MEMORY) and, when the table has no entry for it,
\* AVERROR_UNKNOWN and "unknown error"; the code a failed call of
\* nvfbc_read_header returns is that of its status.
C6_StaticLookup ==
    LET r == error_nv2av(ErrorTable, nv_res)
    IN  /\ nv_res \in Statuses
        /\ IF InTable(ErrorTable, nv_res)
           THEN /\ r.averr = EntryOf(ErrorTable, nv_res).averr
                /\ r.desc = EntryOf(ErrorTable, nv_res).desc
           ELSE /\ r.averr = AVERROR_UNKNOWN
                /\ r.desc = "unknown error"
        /\ nv_res = "NVFBC_ERR_MUST_RECREATE"
             => r = [averr |-> AVERROR_INPUT_CHANGED, desc |-> "modeset event occurred"]
        /\ nv_res = "NVFBC_ERR_OUT_OF_MEMORY"
             => r = [averr |-> AVERROR(ENOMEM), desc |-> "out of memory"]
        /\ HeaderVendorError
             => res = IF InTable(ErrorTable, nv_res)
                      THEN EntryOf(ErrorTable, nv_res).averr
                      ELSE AVERROR_UNKNOWN

\* A vendor call of nvfbc_read_header failed with a status the table of the
\* build does not hold
C6_StatusNotInTable ==
    /\ HeaderVendorError
    /\ ~InTable(ErrorTable, nv_res)
    /\ res = AVERROR_UNKNOWN

\* The vendor calls nvfbc_read_header makes before its error exit
VendorFns ==
    { "NvFBCCreateInstance", "nvFBCCreateHandle", "nvFBCGetStatus",
      "nvFBCCreateCaptureSession", "nvFBCToSysSetUp", "nvFBCToCudaSetUp" }

\* A vendor call of the handshake failed
VendorCallFailed == \E i \in DOMAIN calls : calls[i].fn \in VendorFns /\ ~calls[i].ok

\* C7: when a vendor call of nvfbc_read_header or of nvfbc_read_packet
\* fails, with a status of the table or not, the operation returns a
\* negative code (and nvfbc_read_header goes to its error exit, nvfbc_read_packet
\* fills no packet); whatever status nv_res a vendor call returned,
\* error_nv2av returns 0 for it if it is NVFBC_SUCCESS, a negative code if
\* it is any other status.
C7_FailureNeverSuccess ==
    /\ IF Success(nv_res)
       THEN error_nv2av(ErrorTable, nv_res).averr = 0
       ELSE error_nv2av(ErrorTable, nv_res).averr < 0
    /\ VendorCallFailed
         => /\ pc \in {"h_error", "failed", "closed"}
            /\ pc # "closed" => res < 0
    /\ PacketReturned /\ (\E i \in DOMAIN grabs : ~grabs[i].ok)
         => res < 0 /\ ~pkt.filled

\* nvfbc_read_header returned after a vendor call failed with an unknown status
C7_UnknownStatusReported ==
    /\ pc = "failed"
    /\ VendorCallFailed
    /\ res = AVERROR_UNKNOWN

-----------------------------------------------------------------------------
(* Capture mode *)

\* The type of the capture session created; "" if none was
SessionType ==
    IF SucceededAt("nvFBCCreateCaptureSession") = 0 THEN ""
    ELSE calls[SucceededAt("nvFBCCreateCaptureSession")].eCaptureType

\* C8: after a successful nvfbc_read_header, hwdevice_ref is set exactly when
\* the device option was given.  Without it the session is of type TO_SYS,
\* the stream is RAWVIDEO in the requested pixel format and every grab is
\* nvFBCToSysGrabFrame; with it the session is of type SHARED_CUDA, the
\* stream is WRAPPED_AVFRAME in format CUDA and every grab is
\* nvFBCToCudaGrabFrame.
C8_OneCaptureMode ==
    Opened =>
        /\ ctx.hwdevice_ref <=> ~ctx.hwdevice_name.null
        /\ IF ctx.hwdevice_ref
           THEN /\ SessionType = "NVFBC_CAPTURE_SHARED_CUDA"
                /\ SucceededAt("nvFBCToCudaSetUp") > 0
                /\ streams[1].codec_id = "AV_CODEC_ID_WRAPPED_AVFRAME"
                /\ streams[1].format = "AV_PIX_FMT_CUDA"
                /\ \A i \in DOMAIN grabs : grabs[i].fn = "nvFBCToCudaGrabFrame"
           ELSE /\ SessionType = "NVFBC_CAPTURE_TO_SYS"
                /\ SucceededAt("nvFBCToSysSetUp") > 0
                /\ streams[1].codec_id = "AV_CODEC_ID_RAWVIDEO"
                /\ streams[1].format = ctx.format
                /\ \A i \in DOMAIN grabs : grabs[i].fn = "nvFBCToSysGrabFrame"

\* A frame grabbed in a CUDA session
C8_CudaFrameGrabbed ==
    /\ PacketReturned
    /\ ctx.hwdevice_ref
    /\ grabs # << >>
    /\ pkt.filled

-----------------------------------------------------------------------------
(* Geometry *)

\* nvfbc_read_header has parsed the URL and checked the capture region
RegionChecked == display \in {"open", "closed"} /\ pc # "h_url"

\* 0 <= x <= x + w <= screen_w and 0 <= y <= y + h <= screen_h, evaluated
\* without overflow
BoxInside(c, scr) ==
    /\ 0 <= c.x /\ 0 <= c.w /\ c.w <= scr.w /\ c.x <= scr.w - c.w
    /\ 0 <= c.y /\ 0 <= c.h /\ c.h <= scr.h /\ c.y <= scr.h - c.h

\* C9: when the URL names no output, nvfbc_read_header succeeds only with a
\* capture box inside the screen; with any other box it returns
\* AVERROR(EINVAL) and makes no nvFBCCreateHandle call.
C9_BoxValidated ==
    RegionChecked /\ ctx.output_name.null
        => /\ Opened => BoxInside(ctx, screen)
           /\ ~BoxInside(ctx, screen)
                => /\ CalledAt("nvFBCCreateHandle") = 0
                   /\ pc = "failed" => res = AVERROR(EINVAL)

-----------------------------------------------------------------------------
(* Pixel format *)

\* format is the pix_fmt of an entry of nvfbc_formats
Supported(format) == \E i \in 0..(NB_FORMATS - 1) : FormatAt(i).pix_fmt = format

\* Positions of nvfbc_read_header after the lookup of the pixel format
AfterLookup ==
    { "h_handle", "h_status", "h_hwdevice", "h_hwframes", "h_session_cuda",
      "h_setup_cuda", "h_session_sys", "h_setup_sys", "h_stream" }

\* The calls that read format_idx
ReadsFormatIdx(c) ==
    c.fn \in {"nvFBCCreateCaptureSession", "nvFBCToSysSetUp", "nvFBCToCudaSetUp"}

\* idx is the index of an entry of nvfbc_formats for the requested format
ValidIndex(idx) ==
    /\ 0 <= idx
    /\ idx < NB_FORMATS
    /\ FormatAt(idx).pix_fmt = ctx.format

\* No nvFBCCreateHandle and no nvFBCCreateCaptureSession call was made
NoHandleNoSession ==
    /\ CalledAt("nvFBCCreateHandle") = 0
    /\ CalledAt("nvFBCCreateCaptureSession") = 0

\* format_idx is valid wherever it is used after the lookup: in the session
\* and set-up calls made, in create_stream and in the open session
IndexValidAtUses ==
    /\ pc \in AfterLookup \/ Opened => ValidIndex(ctx.format_idx)
    /\ \A i \in DOMAIN calls :
         ReadsFormatIdx(calls[i]) => ValidIndex(calls[i].format_idx)
    /\ \A i \in DOMAIN calls :
         calls[i].fn \in {"nvFBCToSysSetUp", "nvFBCToCudaSetUp"}
             => calls[i].eBufferFormat = FormatAt(calls[i].format_idx).nvfbc_fmt

\* C10, as stated: with a pixel format that is not in nvfbc_formats,
\* nvfbc_read_header returns AVERROR(EINVAL) and makes no nvFBCCreateHandle
\* or nvFBCCreateCaptureSession call; otherwise format_idx is a valid index
\* of an entry for the requested format at every later use.
C10_UnsupportedIsEINVAL ==
    IF ~Supported(ctx.format)
    THEN /\ NoHandleNoSession
         /\ ~Opened
         /\ pc = "failed" => res = AVERROR(EINVAL)
    ELSE IndexValidAtUses

\* C10, amended: with a pixel format that is not in nvfbc_formats,
\* nvfbc_read_header fails and makes no nvFBCCreateHandle or
\* nvFBCCreateCaptureSession call; it returns AVERROR(EINVAL) if the library
\* was loaded, the instance created and the X display opened, and the error
\* of the first of these steps that failed otherwise, since the format is
\* looked up after them.  With a format of the table, format_idx is a valid
\* index of an entry for the requested format at every later use.
C10_UnsupportedRejected ==
    IF ~Supported(ctx.format)
    THEN /\ NoHandleNoSession
         /\ ~Opened
         /\ pc \notin AfterLookup
         /\ pc = "failed" => res < 0
         /\ pc = "failed" /\ display = "closed" => res = AVERROR(EINVAL)
         /\ pc = "failed" /\ display = "null"
              => res = -1 \/ res = AVERROR(EIO) \/ VendorCallFailed
    ELSE IndexValidAtUses

\* nvfbc_read_header rejected an unsupported pixel format at the lookup
C10_RejectedAtLookup ==
    /\ pc = "failed"
    /\ ~Supported(ctx.format)
    /\ display = "closed"
    /\ res = AVERROR(EINVAL)

\* ---------------------------------------------------------------------------
\* C11: packet timing

\* The pacing wait of the current packet request ends in this step
WaitEnds == pc = "p_wait" /\ pc' \in GrabPositions

\* C11: every packet returned successfully has duration = frame_duration, and
\* its pts is the wall-clock time (av_gettime) read when the pacing wait
\* ends: the wait ends only once the deadline is reached, the wall clock read
\* in that step is kept until the grab call, however long that takes to
\* start, and it is what the packet carries.
C11_PacketTiming ==
    /\ [](pkt.filled => pkt.duration = ctx.frame_duration)
    /\ [][ /\ WaitEnds => clock >= ctx.time_frame /\ pts' = clock + WallOffset
           /\ pc \in GrabPositions /\ pc' \in GrabPositions => pts' = pts
           /\ pc \in GrabPositions /\ pkt'.filled
                => grabs' # grabs /\ pkt'.pts = pts ]_vars

\* A packet was returned whose grab call started after the pacing wait had
\* ended: its pts is earlier than the wall clock at its return
C11_PacketStampedBeforeGrab ==
    /\ PacketReturned
    /\ pkt.filled
    /\ ctx.frame_duration > 0
    /\ pkt.pts < clock + WallOffset

\* ---------------------------------------------------------------------------
\* C12: output selection

\* The URL was taken as the name of an output
NamesOutput == ~ctx.output_name.null

\* The outputs a successful nvFBCGetStatus listed; none if it was not called
\* or failed
ListedOutputs ==
    IF SucceededAt("nvFBCGetStatus") > 0
    THEN calls[SucceededAt("nvFBCGetStatus")].outputs
    ELSE << >>

\* The listed outputs whose name is exactly the URL
NamedOutputs == { i \in DOMAIN ListedOutputs : ListedOutputs[i].name = url.str }

FirstNamed == CHOOSE i \in NamedOutputs : \A j \in NamedOutputs : i <= j

\* nvFBCGetStatus succeeded and listed no output named as the URL
NoneNamed == SucceededAt("nvFBCGetStatus") > 0 /\ NamedOutputs = {}

\* The capture box and the output tracked are those of the first listed
\* output named as the URL, in the context and in every session call
TracksFirstNamed ==
    LET o == ListedOutputs[FirstNamed]
    IN  /\ ctx.x = o.trackedBox.x /\ ctx.y = o.trackedBox.y
        /\ ctx.w = o.trackedBox.w /\ ctx.h = o.trackedBox.h
        /\ ctx.output_id = o.dwId
        /\ \A i \in DOMAIN calls :
              calls[i].fn = "nvFBCCreateCaptureSession"
                 => /\ calls[i].eTrackingType = "NVFBC_TRACKING_OUTPUT"
                    /\ calls[i].dwOutputId = o.dwId

\* No capture session call was made, and the handle created got its destroy call
NoSessionHandleDestroyed ==
    /\ CalledAt("nvFBCCreateCaptureSession") = 0
    /\ SucceededAt("nvFBCCreateHandle") > 0
    /\ CalledAt("nvFBCDestroyHandle") > SucceededAt("nvFBCCreateHandle")

\* C12, as stated: when the URL names an output, nvfbc_read_header succeeds
\* only if nvFBCGetStatus lists an output named exactly as the URL, and then
\* the box, the output id and the session are those of the first such output;
\* if no listed output has that name nvfbc_read_header returns
\* AVERROR(EINVAL), creates no capture session and destroys the handle.
C12_NoOutputIsEINVAL ==
    NamesOutput
        => /\ Opened => NamedOutputs # {} /\ TracksFirstNamed
           /\ pc = "failed" /\ NoneNamed
                => res = AVERROR(EINVAL) /\ NoSessionHandleDestroyed

\* C12, amended: as stated, but when no listed output has that name
\* nvfbc_read_header returns AVERROR(EINVAL) if the status reported
\* bCanCreateNow true and AVERROR_EXTERNAL if it reported it false.
C12_OutputSelection ==
    NamesOutput
        => /\ Opened => NamedOutputs # {} /\ TracksFirstNamed
           /\ pc = "failed" /\ NoneNamed
                => /\ res = IF calls[SucceededAt("nvFBCGetStatus")].bCanCreateNow
                            THEN AVERROR(EINVAL) ELSE AVERROR_EXTERNAL
                   /\ NoSessionHandleDestroyed

\* A session opened on an output whose name is listed twice: the first one is
\* tracked
C12_FirstOfTwoTracked ==
    /\ NamesOutput
    /\ Opened
    /\ Cardinality(NamedOutputs) = 2
    /\ ctx.output_id = ListedOutputs[1].dwId
    /\ ctx.output_id # ListedOutputs[2].dwId

\* ---------------------------------------------------------------------------
\* C13: failure cleanup of nvfbc_read_header

\* Number of calls of fn made so far
CountCalls(fn) == Cardinality({ i \in DOMAIN calls : calls[i].fn = fn })

\* nvfbc_read_header has returned an error
HeaderFailed == pc = "failed"

\* Nothing is held by the context: no handle, no session, no library, no
\* hardware device or frames reference
NothingHeld ==
    /\ ctx.has_handle = 0
    /\ ctx.has_capture_session = 0
    /\ ctx.dl.null
    /\ ~ctx.hwdevice_ref
    /\ ~ctx.hwframes_ref

\* C13: whichever step of nvfbc_read_header fails, when it returns the error
\* the context holds nothing (has_handle = 0, has_capture_session = 0,
\* dl = NULL, hwdevice_ref = NULL, hwframes_ref = NULL) and every handle and
\* capture session the vendor library reported as created has received
\* exactly one destroy call.
C13_FailureCleanup ==
    HeaderFailed
        => /\ res # 0
           /\ NothingHeld
           /\ \A r \in {"handle", "session"} :
                 AcquiredAt(r) > 0
                    => /\ CountCalls(ReleaseFn[r]) = 1
                       /\ ReleasedAt(r) > AcquiredAt(r)

\* nvfbc_read_header failed at its last step, create_stream, after the handle
\* and the capture session were created and the session was set up
C13_FailedAtStream ==
    /\ HeaderFailed
    /\ AcquiredAt("handle") > 0
    /\ AcquiredAt("session") > 0
    /\ \E i \in DOMAIN calls : calls[i].fn \in {"nvFBCToSysSetUp", "nvFBCToCudaSetUp"}
                               /\ calls[i].ok
    /\ streams = << >>

\* ---------------------------------------------------------------------------
\* C14: lifecycle flags

\* The object of resource r exists: its creation call succeeded and its
\* destroy call has not been made
Exists(r) == AcquiredAt(r) > 0 /\ ReleasedAt(r) = 0

\* C14: in every reachable state has_capture_session # 0 implies
\* has_handle # 0, has_handle # 0 implies that the library is loaded
\* (dl # NULL) and NvFBCCreateInstance succeeded, has_handle is set exactly
\* when nvFBCCreateHandle succeeded and nvFBCDestroyHandle was not yet
\* called, and has_capture_session is set exactly when
\* nvFBCCreateCaptureSession succeeded and nvFBCDestroyCaptureSession was not
\* yet called.
C14_LifecycleFlags ==
    /\ ctx.has_capture_session # 0 => ctx.has_handle # 0
    /\ ctx.has_handle # 0
         => /\ ~ctx.dl.null
            /\ ctx.dl.lib
            /\ SucceededAt("NvFBCCreateInstance") > 0
            /\ CalledAt("dlclose") = 0
    /\ ctx.has_handle # 0 <=> Exists("handle")
    /\ ctx.has_capture_session # 0 <=> Exists("session")

\* The demuxer was closed after a session was open, and the vendor library
\* refused to destroy the session and the handle: both flags are clear
C14_ClearedThoughDestroyFailed ==
    /\ pc = "closed"
    /\ ctx.has_handle = 0
    /\ ctx.has_capture_session = 0
    /\ AcquiredAt("session") > 0
    /\ ~calls[ReleasedAt("session")].ok
    /\ ~calls[ReleasedAt("handle")].ok

\* ---------------------------------------------------------------------------
\* C15: nvfbc_read_close is idempotent

\* nvfbc_read_close is called again in this step: after the call the error
\* exit of nvfbc_read_header made, or after an earlier call of the framework
ClosesAgain == pc \in {"failed", "closed"} /\ pc' = "closed"

\* The destroy call of resource r was made at most once, only for an object
\* that was created, and before the library was unloaded
DestroyedOnceLoaded(r) ==
    /\ CountCalls(ReleaseFn[r]) <= IF AcquiredAt(r) > 0 THEN 1 ELSE 0
    /\ ReleasedAt(r) > 0 /\ CalledAt("dlclose") > 0
         => ReleasedAt(r) < CalledAt("dlclose")

\* C15: a second call of nvfbc_read_close makes no vendor call, no dlclose
\* and no unref, and leaves the context as it is; the destroy calls are made
\* at most once per created object and never after the library of the
\* function table was unloaded, which happens at most once.
C15_CloseIdempotent ==
    /\ [](/\ DestroyedOnceLoaded("handle")
          /\ DestroyedOnceLoaded("session")
          /\ CountCalls("dlclose") <= 1)
    /\ [][ClosesAgain => calls' = calls /\ ctx' = ctx]_vars

\* nvfbc_read_close was called by the framework after nvfbc_read_header had
\* failed and had itself destroyed the handle it created
C15_ClosedAfterFailure ==
    /\ pc = "closed"
    /\ streams = << >>
    /\ AcquiredAt("handle") > 0
    /\ CountCalls("nvFBCDestroyHandle") = 1
    /\ CountCalls("dlclose") = 1

\* ---------------------------------------------------------------------------
\* C16: nvfbc_read_close always completes

\* nvfbc_read_close, called by the framework, has returned
Closed == pc = "closed"

\* C16: nvfbc_read_close returns 0 and leaves has_capture_session = 0,
\* has_handle = 0 and the library unloaded (dl = NULL, dlclose called if
\* dlopen had succeeded) also when nvFBCDestroyCaptureSession or
\* nvFBCDestroyHandle fail; a failed session destroy does not prevent the
\* handle destroy.
C16_CloseCompletes ==
    /\ Closed
         => /\ res = 0
            /\ ctx.has_capture_session = 0
            /\ ctx.has_handle = 0
            /\ ctx.dl.null
            /\ AcquiredAt("library") > 0 => ReleasedAt("library") > AcquiredAt("library")
    /\ ReleasedAt("session") > 0
         => /\ ReleasedAt("handle") = ReleasedAt("session") + 1
            /\ ReleasedAt("library") > ReleasedAt("handle")

\* The demuxer was closed, the vendor library refused to destroy the capture
\* session, and the handle was destroyed all the same
C16_HandleDestroyedAfterFailure ==
    /\ Closed
    /\ ReleasedAt("session") > 0
    /\ ~calls[ReleasedAt("session")].ok
    /\ ReleasedAt("handle") > 0
    /\ calls[ReleasedAt("handle")].ok

\* ---------------------------------------------------------------------------
\* C17: default capture region

\* The context right after the URL was parsed, before the capture region is
\* computed: x, y, w, h and output_name are 0 before the parsing
Parsed ==
    ParseUrl([ctx EXCEPT !.x = 0, !.y = 0, !.w = 0, !.h = 0, !.output_name = NullStr],
             url)

\* The URL asks for the whole screen
WholeScreenUrl == url.null \/ url.str = << >> \/ url.str = PipeUrl

\* The capture box is the whole screen
WholeScreen == ctx.x = 0 /\ ctx.y = 0 /\ ctx.w = screen.w /\ ctx.h = screen.h

\* C17, as stated: when the URL names no output and w or h is 0 after
\* parsing, w = max(screen_w - x, 0) and h = max(screen_h - y, 0); an empty
\* URL or "pipe:" captures the whole screen.
C17_BothDefaulted ==
    RegionChecked /\ Parsed.output_name.null
        => /\ Parsed.w = 0 \/ Parsed.h = 0
                => /\ ctx.x = Parsed.x /\ ctx.y = Parsed.y
                   /\ ctx.w = FFMAX(screen.w - ctx.x, 0)
                   /\ ctx.h = FFMAX(screen.h - ctx.y, 0)
           /\ WholeScreenUrl => WholeScreen

\* C17, amended: when the URL names no output, a w that is 0 after parsing
\* becomes max(screen_w - x, 0) and an h that is 0 after parsing becomes
\* max(screen_h - y, 0), each on its own, and a w or h that is not 0 is
\* kept; an empty URL or "pipe:" captures the whole screen.
C17_EachDefaulted ==
    RegionChecked /\ Parsed.output_name.null
        => /\ ctx.x = Parsed.x /\ ctx.y = Parsed.y
           /\ ctx.w = IF Parsed.w = 0 THEN FFMAX(screen.w - ctx.x, 0) ELSE Parsed.w
           /\ ctx.h = IF Parsed.h = 0 THEN FFMAX(screen.h - ctx.y, 0) ELSE Parsed.h
           /\ WholeScreenUrl => WholeScreen

\* A session opened with a URL that gives a height and no width: the width
\* is that of the screen, the height is the one given
C17_WidthDefaultedOnly ==
    /\ Opened
    /\ Parsed.output_name.null
    /\ Parsed.w = 0
    /\ Parsed.h > 0
    /\ ctx.w = screen.w
    /\ ctx.h = Parsed.h
    /\ ctx.h < screen.h

\* ---------------------------------------------------------------------------
\* C18: output frame size default

\* create_capture_handle returns 0 in this step
HandleCreated == pc = "h_status" /\ pc' \notin {"h_status", "h_error"}

\* The frame size of the context
FrameSize(c) == [w |-> c.frame_width, h |-> c.frame_height]

\* C18: when create_capture_handle succeeds, a video_size option that was not
\* specified (frame_width and frame_height 0) is replaced by w and h of the
\* final capture box, the tracked box of the named output when an output is
\* named, and a specified one is kept; nothing else changes the frame size,
\* nothing changes the capture box afterwards, and the frame size is what
\* nvFBCCreateCaptureSession gets as frameSize and what the stream gets as
\* width and height.
C18_FrameSizeDefault ==
    /\ [](/\ \A i \in DOMAIN calls :
                calls[i].fn = "nvFBCCreateCaptureSession"
                   => /\ calls[i].frameSize = FrameSize(ctx)
                      /\ calls[i].captureBox = [x |-> ctx.x, y |-> ctx.y,
                                                w |-> ctx.w, h |-> ctx.h]
          /\ \A i \in DOMAIN streams :
                streams[i].width = ctx.frame_width /\ streams[i].height = ctx.frame_height)
    /\ [][ /\ IF HandleCreated
              THEN FrameSize(ctx') = IF FrameSize(ctx) = [w |-> 0, h |-> 0]
                                     THEN [w |-> ctx'.w, h |-> ctx'.h]
                                     ELSE FrameSize(ctx)
              ELSE FrameSize(ctx') = FrameSize(ctx)
           /\ pc \notin {"h_url", "h_status"} => ctx'.w = ctx.w /\ ctx'.h = ctx.h ]_vars

\* A session opened on a named output without a video_size option: the frame
\* size, the frameSize of the session call and the stream have the size of
\* the tracked box of the output
C18_FrameOfTrackedBox ==
    /\ Opened
    /\ NamesOutput
    /\ ctx.frame_width = ListedOutputs[FirstNamed].trackedBox.w
    /\ ctx.frame_height = ListedOutputs[FirstNamed].trackedBox.h
    /\ ctx.frame_width > 0
    /\ calls[SucceededAt("nvFBCCreateCaptureSession")].frameSize = FrameSize(ctx)
    /\ streams[1].width = ctx.frame_width

\* ---------------------------------------------------------------------------
\* C19: capture not creatable

\* nvFBCGetStatus succeeded and reported bCanCreateNow == NVFBC_FALSE
CannotCreateNow ==
    /\ SucceededAt("nvFBCGetStatus") > 0
    /\ ~calls[SucceededAt("nvFBCGetStatus")].bCanCreateNow

\* C19: if nvFBCGetStatus reports bCanCreateNow == NVFBC_FALSE,
\* nvFBCCreateCaptureSession is never called and nvfbc_read_header returns
\* AVERROR_EXTERNAL, the handle having been destroyed by its cleanup.
C19_NotCreatable ==
    CannotCreateNow
        => /\ CalledAt("nvFBCCreateCaptureSession") = 0
           /\ ~Opened
           /\ pc \in {"h_error", "failed"} => res = AVERROR_EXTERNAL
           /\ pc \in {"failed", "closed"} => NoSessionHandleDestroyed

\* nvfbc_read_header failed for that reason alone: the output the URL names
\* was listed
C19_RefusedThoughListed ==
    /\ CannotCreateNow
    /\ HeaderFailed
    /\ NamesOutput
    /\ NamedOutputs # {}
    /\ res = AVERROR_EXTERNAL

\* ---------------------------------------------------------------------------
\* C20: URL classification

\* " %d x %d %c": a size, then whatever follows it
FmtSizeOnly == << "ws", "d", "ws", "x", "ws", "d", "ws", "c" >>

\* The URL has the form "WxH": the two numbers convert and nothing but white
\* space follows them
FormSize == ScanCount(sscanf(url.str, FmtSizeOnly)) = 2

\* The URL has the form "WxH+X+Y", nothing but white space after it
FormSizePos == ScanCount(sscanf(url.str, FmtSizePos)) = 4

\* The URL has the form "+X+Y", nothing but white space after it
FormPos == ScanCount(sscanf(url.str, FmtPos)) = 2

\* The numbers of a URL of one of these forms, in the order they are written
UrlNumbers(fmt) == sscanf(url.str, fmt).vals

\* w and h are the given ones, or the default where 0 is given
SizeGiven(w, h) ==
    /\ ctx.w = IF w = 0 THEN FFMAX(screen.w - ctx.x, 0) ELSE w
    /\ ctx.h = IF h = 0 THEN FFMAX(screen.h - ctx.y, 0) ELSE h

\* C20: a NULL, empty or "pipe:" URL selects the whole screen; a URL of the
\* form "WxH" or "WxH+X+Y", nothing but white space after it, sets the size
\* of the box and the position if given; a URL of the form "+X+Y" sets the
\* position only, w and h being 0 before the region is computed; every other
\* URL is taken as an output name, and then x, y, w and h are all 0 when
\* create_capture_handle starts.
C20_UrlClassification ==
    RegionChecked
        => IF WholeScreenUrl
           THEN ctx.output_name.null /\ WholeScreen
           ELSE IF FormSize
           THEN /\ ctx.output_name.null
                /\ ctx.x = 0 /\ ctx.y = 0
                /\ SizeGiven(UrlNumbers(FmtSizeOnly)[1], UrlNumbers(FmtSizeOnly)[2])
           ELSE IF FormSizePos
           THEN /\ ctx.output_name.null
                /\ ctx.x = UrlNumbers(FmtSizePos)[3] /\ ctx.y = UrlNumbers(FmtSizePos)[4]
                /\ SizeGiven(UrlNumbers(FmtSizePos)[1], UrlNumbers(FmtSizePos)[2])
           ELSE IF FormPos
           THEN /\ ctx.output_name.null
                /\ ctx.x = UrlNumbers(FmtPos)[1] /\ ctx.y = UrlNumbers(FmtPos)[2]
                /\ SizeGiven(0, 0)
           ELSE /\ ctx.output_name = url
                /\ pc \in {"h_streaminfo", "h_handle"}
                     => ctx.x = 0 /\ ctx.y = 0 /\ ctx.w = 0 /\ ctx.h = 0

\* ---------------------------------------------------------------------------
\* C21: the pacing wait terminates

\* wait_frame is a single-threaded loop: while it runs, its next step is
\* taken, the sleep returning with the clock advanced and the loop test
\* being evaluated
LiveSpec == Spec /\ WF_vars(WaitFrameSleep) /\ WF_vars(WaitFrameReturn)

\* wait_frame is in its loop
Waiting == pc = "p_wait"

\* av_usleep is called in this step
Sleeps == Waiting /\ clock' # clock

\* C21: provided the monotonic clock keeps advancing, every call of
\* wait_frame leaves its loop and returns; it sleeps only while the deadline
\* is still in the future, each sleep being asked for exactly the remaining
\* delay, and it returns only once the deadline is reached.
C21_WaitTerminates ==
    /\ Waiting ~> pc \in GrabPositions
    /\ [][ /\ Sleeps => delay' = ctx.time_frame - clock /\ delay' > 0
           /\ WaitEnds => ctx.time_frame - clock <= 0 /\ clock' = clock ]_vars

\* wait_frame is back in its loop after a sleep that ended early: the sleep
\* was asked for the delay there was, and part of it is still ahead
C21_SleepEndedEarly ==
    /\ Waiting
    /\ delay > 0
    /\ ctx.time_frame - clock > 0
    /\ ctx.time_frame - clock < delay

\* ---------------------------------------------------------------------------
\* C22: no resynchronisation, no skipped frame slot

\* The number of calls of nvfbc_read_packet whose pacing wait has ended; each
\* of them makes at most one grab call, and no grab call is made before
WaitsEnded == IF Waiting THEN npackets - 1 ELSE npackets

\* The deadline is set by nvfbc_read_header in this step
DeadlineSet == pc = "h_streaminfo"

\* nvfbc_read_packet is called in this step
PacketRequested == pc = "ready" /\ pc' = "p_wait"

\* C22: after open the deadline is never reset to the current time: it
\* changes only when nvfbc_read_packet is called, by one frame duration; a
\* call that finds its deadline reached, as each of the next k calls does when
\* the caller is k frame durations behind, goes to its grab call without
\* sleeping; and the grab calls made by monotonic time T, T being clock and
\* t_open the time nvfbc_read_header recorded, are at most
\* floor((T - t_open) / frame_duration).
C22_NoResync ==
    /\ [](/\ Len(grabs) <= 1
          /\ Waiting => grabs = << >>
          /\ Opened => /\ WaitsEnded * ctx.frame_duration <= clock - t_rec
                       /\ ctx.frame_duration > 0
                            => WaitsEnded <= (clock - t_rec) \div ctx.frame_duration)
    /\ [][ /\ ctx'.time_frame # ctx.time_frame => DeadlineSet \/ PacketRequested
           /\ PacketRequested => ctx'.time_frame = ctx.time_frame + ctx.frame_duration
           /\ Waiting /\ clock >= ctx.time_frame => clock' = clock /\ delay' = 0 ]_vars

\* The caller was two frame durations behind when it asked for the first
\* packet: the call is at its grab call without having slept, and the caller
\* is still one frame duration behind
C22_CatchingUp ==
    /\ pc \in GrabPositions
    /\ npackets = 1
    /\ ctx.frame_duration > 0
    /\ pts = clock + WallOffset
    /\ clock >= ctx.time_frame + ctx.frame_duration

\* ---------------------------------------------------------------------------
\* C23: frame_duration is positive

\* C23: after a successful nvfbc_read_header frame_duration is strictly
\* positive, for every framerate the framerate option accepts, so that the
\* deadline of a packet request is strictly later than that of the request
\* before.
C23_PositiveDuration ==
    Opened
        => /\ ctx.frame_duration > 0
           /\ npackets >= 1 => ctx.time_frame > t_rec + (npackets - 1) * ctx.frame_duration

\* ---------------------------------------------------------------------------
\* C24: nvfbc_load_functions

\* nvfbc_load_functions has returned 0, and nothing was done since
Loaded == pc = "h_instance"

\* nvfbc_load_functions has returned an error, and nothing was done since
LoadFailed == pc = "h_error" /\ CalledAt("NvFBCCreateInstance") = 0

\* C24: nvfbc_load_functions returns 0 only if the library was opened and
\* the symbol NvFBCCreateInstance resolved, and then *functions is not NULL
\* and has a lib and a NvFBCCreateInstance that are not NULL; if the
\* allocation, the library load or the symbol look-up fails it returns a
\* negative value and leaves *functions NULL, having closed the library if
\* it had opened it.
C24_LoadPostcondition ==
    /\ Loaded
         => /\ res = 0
            /\ SucceededAt("dlopen") > 0 /\ SucceededAt("dlsym") > 0
            /\ ~ctx.dl.null /\ ctx.dl.lib /\ ctx.dl.NvFBCCreateInstance
            /\ CalledAt("dlclose") = 0
    /\ LoadFailed
         => /\ res < 0
            /\ SucceededAt("dlsym") = 0
            /\ ctx.dl.null
            /\ IF SucceededAt("dlopen") > 0
               THEN CountCalls("dlclose") = 1 /\ CalledAt("dlclose") > CalledAt("dlsym")
               ELSE CalledAt("dlclose") = 0

\* The library was opened and the symbol was not found in it: the library was
\* closed again and the pointer is NULL
C24_ClosedAfterSymbolFailure ==
    /\ LoadFailed
    /\ SucceededAt("dlopen") > 0
    /\ CalledAt("dlsym") > 0
    /\ CalledAt("dlclose") > 0
    /\ ctx.dl.null

-----------------------------------------------------------------------------
(* The earlier revision of the demuxer (src/unnamed/part_002):
   nvfbc_read_header and nvfbc_read_close.  Its context has the fields of
   that revision; the display pointer of the context is the variable
   display. *)

\* nvfbc_formats of the earlier revision
OldFormats ==
    << Fmt("AV_PIX_FMT_ARGB",    "NVFBC_BUFFER_FORMAT_ARGB",    32),
       Fmt("AV_PIX_FMT_RGB24",   "NVFBC_BUFFER_FORMAT_RGB",     24),
       Fmt("AV_PIX_FMT_NV12",    "NVFBC_BUFFER_FORMAT_NV12",    12),
       Fmt("AV_PIX_FMT_YUV444P", "NVFBC_BUFFER_FORMAT_YUV444P", 24),
       Fmt("AV_PIX_FMT_RGBA",    "NVFBC_BUFFER_FORMAT_RGBA",    32),
       Fmt("AV_PIX_FMT_BGRA",    "NVFBC_BUFFER_FORMAT_BGRA",    32) >>

\* The format look-up of the earlier nvfbc_read_header: the index of the
\* first entry for format, -1 if there is none
OldFormatLookup(format) ==
    IF \E i \in DOMAIN OldFormats : OldFormats[i].pix_fmt = format
    THEN (CHOOSE i \in DOMAIN OldFormats :
              /\ OldFormats[i].pix_fmt = format
              /\ \A j \in 1..(i - 1) : OldFormats[j].pix_fmt # format) - 1
    ELSE -1

FFMIN(a, b) == IF a > b THEN b ELSE a

\* Values of the options x and y
OldOffsets == { 0, 1, 5 }

\* Values of the option pixel_format; AV_PIX_FMT_NONE when it is not given
OldPixelFormats == { "AV_PIX_FMT_NONE", "AV_PIX_FMT_NV12", "AV_PIX_FMT_YUV420P" }

\* The context of the earlier revision after the options were set
OldContext(x, video_size, format, framerate) ==
    [ x |-> x, y |-> 0,
      frame_width |-> video_size.w, frame_height |-> video_size.h,
      format |-> format, framerate |-> framerate,
      frame_duration |-> 0, time_frame |-> 0, format_idx |-> 0,
      nvfbc_dl |-> NullDl, nvfbc_funcs |-> FALSE,
      handle_created |-> 0, capture_session_created |-> 0 ]

OldInit ==
    /\ build \in [CONFIG_CUDA : {FALSE}, v18 : BOOLEAN]
    /\ url \in {NullStr, Str(<< >>)}
    /\ \E x \in OldOffsets, video_size \in VideoSizes, format \in OldPixelFormats,
          framerate \in Framerates :
         ctx = OldContext(x, video_size, format, framerate)
    /\ pc = "idle"
    /\ res = 0
    /\ nv_res = NoStatus
    /\ clock = 0
    /\ display = "null"
    /\ screen = [w |-> 0, h |-> 0]
    /\ streams = << >>
    /\ pts = 0
    /\ delay = 0
    /\ pkt = NoPacket
    /\ calls = << >>
    /\ npackets = 0
    /\ grabs = << >>
    /\ t_rec = 0
    /\ t_ret = 0

\* The variables the earlier nvfbc_read_header and nvfbc_read_close leave alone
OldUnused == <<build, url, clock, pts, delay, pkt, npackets, grabs, t_rec, t_ret>>

\* nvfbc_load_libraries, first half
OldLoadFunctions ==
    /\ pc = "idle"
    /\ \E outcome \in LoadOutcomes :
         LET r == nvfbc_load_functions(ctx.nvfbc_dl, outcome)
         IN  /\ ctx' = [ctx EXCEPT !.nvfbc_dl = r.dl]
             /\ calls' = calls \o r.log
             /\ res' = r.ret
             /\ pc' = IF r.ret < 0 THEN "o_error" ELSE "o_instance"
    /\ UNCHANGED <<OldUnused, nv_res, display, screen, streams>>

\* nvfbc_load_libraries, second half: NvFBCCreateInstance
OldCreateInstance ==
    /\ pc = "o_instance"
    /\ \E st \in Statuses :
         /\ nv_res' = st
         /\ calls' = Append(calls, Call("NvFBCCreateInstance", Success(st)))
         /\ ctx' = [ctx EXCEPT !.nvfbc_funcs = Success(st)]
         /\ res' = IF Success(st) THEN 0 ELSE error_nv2av(ErrorTable, st).averr
         /\ pc' = IF Success(st) THEN "o_display" ELSE "o_error"
    /\ UNCHANGED <<OldUnused, display, screen, streams>>

\* XOpenDisplay and the size of the default screen
OldOpenDisplay ==
    /\ pc = "o_display"
    /\ \/ /\ display' = "null"
          /\ res' = AVERROR(EIO)
          /\ pc' = "o_error"
          /\ UNCHANGED screen
       \/ /\ display' = "open"
          /\ screen' \in ScreenSizes
          /\ pc' = "o_region"
          /\ UNCHANGED res
    /\ UNCHANGED <<OldUnused, ctx, nv_res, streams, calls>>

\* The capture region computed and checked
OldCheckRegion ==
    /\ pc = "o_region"
    /\ LET c == [ctx EXCEPT
                   !.frame_width = IF ctx.frame_width = 0
                                   THEN FFMIN(screen.w - ctx.x, 0) ELSE ctx.frame_width,
                   !.frame_height = IF ctx.frame_height = 0
                                    THEN FFMIN(screen.h - ctx.y, 0) ELSE ctx.frame_height]
       IN  /\ ctx' = c
           /\ IF c.x + c.frame_width > screen.w \/ c.y + c.frame_height > screen.h
              THEN res' = AVERROR(EINVAL) /\ pc' = "o_error"
              ELSE res' = res /\ pc' = "o_streaminfo"
    /\ UNCHANGED <<OldUnused, nv_res, display, screen, streams, calls>>

\* The stream information computed and the pixel format looked up
OldStreamInfo ==
    /\ pc = "o_streaminfo"
    /\ LET format == IF ctx.format = "AV_PIX_FMT_NONE" THEN "AV_PIX_FMT_BGRA"
                     ELSE ctx.format
       IN  /\ ctx' = [ctx EXCEPT !.frame_duration = FrameDuration(ctx.framerate),
                                 !.time_frame = clock,
                                 !.format = format,
                                 !.format_idx = OldFormatLookup(format)]
           /\ IF OldFormatLookup(format) = -1
              THEN res' = AVERROR(EINVAL) /\ pc' = "o_error"
              ELSE res' = res /\ pc' = "o_stream"
    /\ UNCHANGED <<OldUnused, nv_res, display, screen, streams, calls>>

\* create_stream of the earlier revision, called before the capture session
\* is created; its size test multiplies frame_width by itself
OldCreateStream ==
    /\ pc = "o_stream"
    /\ IF FrameTooLarge(ctx.frame_width, ctx.frame_width, OldFormats[ctx.format_idx + 1].bpp)
       THEN res' = AVERROR_PATCHWELCOME /\ pc' = "o_error" /\ streams' = streams
       ELSE \/ res' = AVERROR(ENOMEM) /\ pc' = "o_error" /\ streams' = streams
            \/ /\ streams' = Append(streams,
                                    [ codec_type |-> "AVMEDIA_TYPE_VIDEO",
                                      codec_id |-> "AV_CODEC_ID_RAWVIDEO",
                                      format |-> ctx.format,
                                      width |-> ctx.frame_width,
                                      height |-> ctx.frame_height,
                                      avg_frame_rate |-> ctx.framerate ])
               /\ res' = 0
               /\ pc' = "o_handle"
    /\ UNCHANGED <<OldUnused, ctx, nv_res, display, screen, calls>>

\* create_capture_session: nvFBCCreateHandle
OldCreateHandle ==
    /\ pc = "o_handle"
    /\ \E st \in Statuses :
         /\ nv_res' = st
         /\ calls' = Append(calls, Call("nvFBCCreateHandle", Success(st)))
         /\ ctx' = [ctx EXCEPT !.handle_created = IF Success(st) THEN 1 ELSE @]
         /\ res' = IF Success(st) THEN res ELSE error_nv2av(ErrorTable, st).averr
         /\ pc' = IF Success(st) THEN "o_status" ELSE "o_error"
    /\ UNCHANGED <<OldUnused, display, screen, streams>>

\* create_capture_session: nvFBCGetStatus and the test of bCanCreateNow
OldGetStatus ==
    /\ pc = "o_status"
    /\ \E st \in Statuses, bCanCreateNow \in BOOLEAN :
         /\ nv_res' = st
         /\ calls' = Append(calls, Call("nvFBCGetStatus", Success(st)))
         /\ res' = IF ~Success(st) THEN error_nv2av(ErrorTable, st).averr
                   ELSE IF ~bCanCreateNow THEN AVERROR_EXTERNAL
                   ELSE res
         /\ pc' = IF Success(st) /\ bCanCreateNow THEN "o_session" ELSE "o_error"
    /\ UNCHANGED <<OldUnused, ctx, display, screen, streams>>

\* create_capture_session: nvFBCCreateCaptureSession
OldCreateSession ==
    /\ pc = "o_session"
    /\ \E st \in Statuses :
         /\ nv_res' = st
         /\ calls' = Append(calls, Call("nvFBCCreateCaptureSession", Success(st)))
         /\ ctx' = [ctx EXCEPT !.capture_session_created = IF Success(st) THEN 1 ELSE @]
         /\ res' = IF Success(st) THEN res ELSE error_nv2av(ErrorTable, st).averr
         /\ pc' = IF Success(st) THEN "o_setup" ELSE "o_error"
    /\ UNCHANGED <<OldUnused, display, screen, streams>>

\* create_capture_session: nvFBCToSysSetUp, to the return of nvfbc_read_header
OldSetUp ==
    /\ pc = "o_setup"
    /\ \E st \in Statuses :
         /\ nv_res' = IF Success(st) THEN NoStatus ELSE st
         /\ calls' = Append(calls, Call("nvFBCToSysSetUp", Success(st)))
         /\ res' = IF Success(st) THEN 0 ELSE error_nv2av(ErrorTable, st).averr
         /\ pc' = IF Success(st) THEN "o_ready" ELSE "o_error"
    /\ UNCHANGED <<OldUnused, ctx, display, screen, streams>>

\* The calls the earlier nvfbc_read_close makes in context c with the display
\* pointer d, in order
Old_read_close_calls(c, d, d1, d2) ==
       (IF c.capture_session_created # 0
        THEN << Call("nvFBCDestroyCaptureSession", d1) >> ELSE << >>)
    \o (IF c.handle_created # 0
        THEN << Call("nvFBCDestroyHandle", d2) >> ELSE << >>)
    \o (IF d = "open" THEN << Call("XCloseDisplay", TRUE) >> ELSE << >>)
    \o nvfbc_free_functions(c.nvfbc_dl).log

\* The context the earlier nvfbc_read_close leaves
Old_read_close_ctx(c) ==
    [c EXCEPT !.capture_session_created = 0, !.handle_created = 0,
              !.nvfbc_dl = nvfbc_free_functions(c.nvfbc_dl).dl]

\* The error exit of the earlier nvfbc_read_header: nvfbc_read_close
OldHeaderError ==
    /\ pc = "o_error"
    /\ \E d1 \in BOOLEAN, d2 \in BOOLEAN :
         calls' = calls \o Old_read_close_calls(ctx, display, d1, d2)
    /\ ctx' = Old_read_close_ctx(ctx)
    /\ display' = IF display = "open" THEN "closed" ELSE display
    /\ nv_res' = NoStatus
    /\ pc' = "o_failed"
    /\ UNCHANGED <<OldUnused, res, screen, streams>>

\* The earlier nvfbc_read_close, called by the framework
Old_nvfbc_read_close ==
    /\ pc \in {"o_ready", "o_failed", "o_closed"}
    /\ \E d1 \in BOOLEAN, d2 \in BOOLEAN :
         calls' = calls \o Old_read_close_calls(ctx, display, d1, d2)
    /\ ctx' = Old_read_close_ctx(ctx)
    /\ display' = IF display = "open" THEN "closed" ELSE display
    /\ res' = 0
    /\ pc' = "o_closed"
    /\ UNCHANGED <<OldUnused, nv_res, screen, streams>>

OldNext ==
    \/ OldLoadFunctions
    \/ OldCreateInstance
    \/ OldOpenDisplay
    \/ OldCheckRegion
    \/ OldStreamInfo
    \/ OldCreateStream
    \/ OldCreateHandle
    \/ OldGetStatus
    \/ OldCreateSession
    \/ OldSetUp
    \/ OldHeaderError
    \/ Old_nvfbc_read_close

OldSpec == OldInit /\ [][OldNext]_vars

\* ---------------------------------------------------------------------------
\* C25: failed open in the earlier revision

\* The earlier nvfbc_read_header has returned an error
OldHeaderFailed == pc = "o_failed"

\* C25: whenever the earlier nvfbc_read_header returns an error, also when
\* the handle creation, the status query, the capture session creation or the
\* set-up failed, no stream has been added to the format context, the handle
\* and capture session flags are 0, the X display is closed and the library
\* is unloaded.
C25_OldFailedOpenClean ==
    OldHeaderFailed
        => /\ res < 0
           /\ streams = << >>
           /\ ctx.handle_created = 0
           /\ ctx.capture_session_created = 0
           /\ display # "open"
           /\ ctx.nvfbc_dl.null
           /\ SucceededAt("dlopen") > 0 => CalledAt("dlclose") > SucceededAt("dlopen")

=============================================================================
